---- MODULE Spec2Model ----
(***************************************************************************)
(* Model of the performance sampler (PerformanceMonitor) and of the        *)
(* scenario runner (AnimationPerformanceTester) of                         *)
(* src/src/utils/performance-ui.js, together with the part of the host     *)
(* (clock, interval/timeout table, animation-frame queue) they run on.     *)
(* Times are whole milliseconds.                                           *)
(***************************************************************************)
EXTENDS Integers, Sequences, FiniteSets, TLC

VARIABLES
    now,             \* host clock: performance.now() / Date.now()
    horizon,         \* the run is observed while the clock is <= horizon
    timers,          \* host table of armed setInterval / setTimeout entries
    nextTimerId,     \* next handle setInterval / setTimeout returns
    rafQueue,        \* armed requestAnimationFrame callbacks (their frameStart)
    hasMemory,       \* whether the host offers performance.memory
    panel,           \* whether the elements #fps and #memory are in the document
    dom,             \* text and colour of #fps and #memory
    metrics,         \* PerformanceMonitor.metrics
    isMonitoring,    \* PerformanceMonitor.isMonitoring
    fpsInterval,     \* PerformanceMonitor.fpsInterval
    memoryInterval,  \* PerformanceMonitor.memoryInterval
    frameCount,      \* PerformanceMonitor.frameCount
    lastTime,        \* PerformanceMonitor.lastTime
    pushed,          \* history: every sample pushed into each window since the last reset
    last,            \* history: the operation performed by the last step
    afterStop,       \* history: frame-time samples recorded since the sampler was last stopped
    tally,           \* history: increments and decrements since the counter was last reset
    call,            \* history: the last call of a pure method, its arguments and its result
    page,            \* the page: scroll height, decorative elements, location path, elements
    nodes,           \* the elements of the page and those the scenarios create
    nextNodeId,      \* identity of the next element created
    scroll,          \* the scroll requests made so far (window.scrollTo)
    runs,            \* the invocations of runAllTests: position, locals, report, event log
    testResults,     \* AnimationPerformanceTester.testResults
    job,             \* the invocation whose code is executing, 0 when the event loop is idle
    exported,        \* the value one call of exportData() returned, and what its rawData refers to
    sinceTick,       \* history: instant of, and frame callbacks since, the last FPS tick, start or reset
    ui,              \* the performance panel: its buttons, and the click handlers that await a run
    pathCtl          \* the path controller of the vanilla demo: pathAnimationState, inline styles

monitorVars == <<metrics, isMonitoring, fpsInterval, memoryInterval, frameCount, lastTime>>
hostVars    == <<now, horizon, timers, nextTimerId, rafQueue, hasMemory, panel, dom>>
histVars    == <<pushed, last, afterStop, tally, call>>
runVars     == <<page, nodes, nextNodeId, scroll, runs, testResults, job>>
auxVars     == <<exported, sinceTick>>
vars        == <<monitorVars, hostVars, histVars, runVars, auxVars, ui, pathCtl>>

----------------------------------------------------------------------------
(* Bounds of the model *)

MaxTime == 2000       \* horizon of the interleaving specification, ms
WinTime == 62000      \* horizon of the long-run specification, ms
RefreshHz == 3        \* display refreshes per second of the modelled host
MaxTimers == 4        \* handles the host hands out
MaxAnim == 3          \* cap of the animation counter
MaxFps == 70          \* largest average frame rate graded
MaxFrameMs == 40      \* largest average frame time graded
MaxRuns == 2          \* invocations of runAllTests
RunTime == 7500       \* horizon of the scenario-runner specification, ms
SeqTime == 14000      \* horizon for invocations one after another, ms
PanelTime == 3000     \* horizon of the panel specification, ms
MaxClicks == 2        \* clicks on the buttons of one control group in one behaviour
PathTime == 3000      \* horizon of the path-controller specification, ms

(* Program constants *)

FpsWindow == 60
MemoryWindow == 30
FrameTimeWindow == 120
FpsPeriod == 1000
MemoryPeriod == 2000

Null == "null"

----------------------------------------------------------------------------
(* Arithmetic *)

Max(a, b) == IF a >= b THEN a ELSE b

Min(a, b) == IF a <= b THEN a ELSE b

MinOf(S) == CHOOSE x \in S : \A y \in S : x <= y

\* Math.round(a / b) for a >= 0, b > 0: the nearest integer, halves upwards.
Round(a, b) == (2 * a + b) \div (2 * b)

RECURSIVE Sum(_)
Sum(s) == IF s = <<>> THEN 0 ELSE Head(s) + Sum(Tail(s))

\* The last Min(Len(s), k) elements of s, in order.
LastK(s, k) == IF Len(s) <= k THEN s ELSE SubSeq(s, Len(s) - k + 1, Len(s))

----------------------------------------------------------------------------
(* Host: display refresh, timers *)

\* Instant of the k-th display refresh.
Vsync(k) == (k * 1000 + 500) \div RefreshHz

\* First display refresh at or after t that is later than the arming instant.
NextVsync(t, armedAt) ==
    LET k0 == (t * RefreshHz) \div 1000
    IN  MinOf({ Vsync(k) : k \in { j \in (k0 - 1)..(k0 + 2) :
                                     j >= 0 /\ Vsync(j) >= t /\ Vsync(j) > armedAt } })

FrameFireTime == NextVsync(now, Head(rafQueue))

TimerFireTime(t) == Max(t.due, now)

\* Timers run in the order of their due time, then of their creation.
Earliest(t) ==
    \A u \in timers : t.due < u.due \/ (t.due = u.due /\ t.id <= u.id)

TimerReady(t) ==
    /\ job = 0
    /\ t \in timers
    /\ Earliest(t)
    /\ TimerFireTime(t) <= horizon
    /\ rafQueue # <<>> => TimerFireTime(t) <= FrameFireTime

FrameReady ==
    /\ job = 0
    /\ rafQueue # <<>>
    /\ \A t \in timers : FrameFireTime <= TimerFireTime(t)
    /\ FrameFireTime <= horizon \/ ~isMonitoring

\* setInterval(cb, period) / setTimeout(cb, delay) called at instant t: the new table entry.
NewTimerAt(t, id, cb, delay, period) ==
    [id |-> id, cb |-> cb, due |-> t + delay, period |-> period]

NewTimer(id, cb, delay, period) == NewTimerAt(now, id, cb, delay, period)

\* What the host does with a timer after running its callback at instant t.
Rearm(T, tm, t) ==
    IF tm.period > 0
    THEN (T \ {tm}) \cup {[tm EXCEPT !.due = t + tm.period]}
    ELSE T \ {tm}

\* The readings performance.memory can give, in bytes.
HeapReadings ==
    { [usedJSHeapSize |-> 13002342, totalJSHeapSize |-> 20971520, jsHeapSizeLimit |-> 536870912],
      [usedJSHeapSize |-> 29884416, totalJSHeapSize |-> 33554432, jsHeapSizeLimit |-> 33554432] }

NominalHeap ==
    [usedJSHeapSize |-> 13002342, totalJSHeapSize |-> 20971520, jsHeapSizeLimit |-> 536870912]

----------------------------------------------------------------------------
(* Panel elements *)

Dash == [dash |-> TRUE, n |-> 0]           \* the text "--"
Num(n) == [dash |-> FALSE, n |-> n]        \* the text of a number

InitialDom ==
    [fps    |-> [text |-> Dash, color |-> "inherit"],
     memory |-> [text |-> Dash, color |-> "inherit"]]

\* updateFPSDisplay
UpdateFPSDisplay(d, fps) ==
    IF panel
    THEN [d EXCEPT !.fps = [text  |-> Num(fps),
                            color |-> IF fps >= 55 THEN "#10b981"
                                      ELSE IF fps >= 30 THEN "#f59e0b"
                                      ELSE "#ef4444"]]
    ELSE d

\* updateMemoryDisplay: usagePercent = used / limit * 100
UpdateMemoryDisplay(d, info) ==
    IF panel
    THEN [d EXCEPT !.memory =
             [text  |-> Num(info.used),
              color |-> IF info.limit > 0 /\ info.used * 100 < 50 * info.limit THEN "#10b981"
                        ELSE IF info.limit > 0 /\ info.used * 100 < 80 * info.limit THEN "#f59e0b"
                        ELSE "#ef4444"]]
    ELSE d

----------------------------------------------------------------------------
(* The document *)

\* The parent of a child of document.body, and of a detached element.
Body == 0
Detached == 0 - 1

\* An element: tag, parent (Body, Detached, or an element's id),
\* classes, whether its inline style holds "-1000px", whether it carries a
\* stroke-dasharray attribute, and how often a scenario has animated it.
Node(id, tag, parent, classes, offscreen, dasharray) ==
    [id |-> id, tag |-> tag, parent |-> parent, classes |-> classes,
     offscreen |-> offscreen, dasharray |-> dasharray, animated |-> 0]

NodeOf(N, id) == CHOOSE n \in N : n.id = id

RECURSIVE InDocument(_, _)
InDocument(N, n) ==
    IF n.parent = Body THEN TRUE
    ELSE IF n.parent = Detached THEN FALSE
    ELSE InDocument(N, NodeOf(N, n.parent))

RECURSIVE InsideSvg(_, _)
InsideSvg(N, n) ==
    IF n.parent \in {Body, Detached} THEN FALSE
    ELSE NodeOf(N, n.parent).tag = "svg" \/ InsideSvg(N, NodeOf(N, n.parent))

\* The ids of a set of elements in document order (elements are numbered in it).
RECURSIVE InOrder(_)
InOrder(ids) ==
    IF ids = {} THEN <<>>
    ELSE LET m == MinOf(ids) IN <<m>> \o InOrder(ids \ {m})

\* document.querySelectorAll(selector): the matching elements of the document.
\* matching is the set of the elements the selector matches.
QuerySelectorAll(N, matching) ==
    InOrder({ n.id : n \in { m \in matching : m \in N /\ InDocument(N, m) } })

\* The pages the scenarios are run on.
BarePage ==
    [height |-> 250, decorative |-> 10, path |-> <<"index.html">>, nodes |-> {}]

CardPage ==
    [height |-> 400, decorative |-> 11, path |-> <<"index.html">>,
     nodes |-> { Node(1, "div", Body, {"card", "doc-card"}, FALSE, FALSE),
                 Node(2, "div", Body, {"feature-tag"}, FALSE, FALSE),
                 Node(3, "svg", Body, {}, FALSE, FALSE),
                 Node(4, "path", 3, {"draw-path"}, FALSE, TRUE),
                 Node(5, "circle", 3, {}, FALSE, FALSE) }]

DemoPage ==
    [height |-> 300, decorative |-> 10, path |-> <<"gsap-version", "index.html">>,
     nodes |-> { Node(1, "div", Body, {"stagger-item"}, FALSE, FALSE),
                 Node(2, "div", Body, {}, TRUE, FALSE),
                 Node(3, "svg", Body, {}, FALSE, FALSE),
                 Node(4, "rect", 3, {}, FALSE, FALSE) }]

\* A page without targets that positions a tooltip of its own off screen.
TooltipPage ==
    [height |-> 250, decorative |-> 0, path |-> <<"index.html">>,
     nodes |-> { Node(1, "div", Body, {}, TRUE, FALSE) }]

\* Pages whose own off-screen div, or svg, lies inside a wrapper element.
WrappedDivPage ==
    [height |-> 250, decorative |-> 0, path |-> <<"index.html">>,
     nodes |-> { Node(1, "div", Body, {"card"}, FALSE, FALSE),
                 Node(2, "div", 1, {}, TRUE, FALSE) }]

WrappedSvgPage ==
    [height |-> 250, decorative |-> 10, path |-> <<"index.html">>,
     nodes |-> { Node(1, "div", Body, {"title-line"}, FALSE, FALSE),
                 Node(2, "svg", 1, {}, TRUE, FALSE),
                 Node(3, "line", 2, {}, FALSE, FALSE) }]

Pages == {BarePage, CardPage, DemoPage}

\* A light page with 25 cards.
GalleryPage ==
    [height |-> 250, decorative |-> 0, path |-> <<"index.html">>,
     nodes |-> { Node(k, "div", Body, {"card"}, FALSE, FALSE) : k \in 1..25 }]

StaggerPages == {GalleryPage, CardPage, BarePage, DemoPage}

\* Pages that hold an off-screen element of their own.
OwnPages == {TooltipPage, WrappedDivPage, WrappedSvgPage}

FirstFreeId(N) == IF N = {} THEN 1 ELSE 1 + CHOOSE m \in {n.id : n \in N} : \A n \in N : n.id <= m

----------------------------------------------------------------------------
(* PerformanceMonitor: pure parts *)

\* The metrics object built by the constructor and by reset() at instant t.
NewMetrics(t) ==
    [fps |-> <<>>, memory |-> <<>>, loadTime |-> 0, animationCount |-> 0,
     frameTime |-> <<>>, cpuUsage |-> 0, startTime |-> t]

\* Variants of the window update with an off-by-one limit or the wrong eviction end.
PushFrameTimeKeepsOldest(w, x) ==
    IF Len(Append(w, x)) > FrameTimeWindow
    THEN SubSeq(Append(w, x), 1, FrameTimeWindow)
    ELSE Append(w, x)

\* this.metrics.fps.push(fps); if (this.metrics.fps.length > 60) this.metrics.fps.shift();
PushFps(w, x) ==
    IF Len(Append(w, x)) > FpsWindow THEN Tail(Append(w, x)) ELSE Append(w, x)

\* this.metrics.memory.push(memoryInfo); if (length > 30) shift();
PushMemory(w, x) ==
    IF Len(Append(w, x)) > MemoryWindow THEN Tail(Append(w, x)) ELSE Append(w, x)

\* this.metrics.frameTime.push(frameTime); if (length > 120) shift();
PushFrameTime(w, x) ==
    IF Len(Append(w, x)) > FrameTimeWindow THEN Tail(Append(w, x)) ELSE Append(w, x)

\* Math.round(bytes / 1024 / 1024)
ToMB(bytes) == Round(bytes, 1024 * 1024)

MemoryInfo(heap, t) ==
    [used  |-> ToMB(heap.usedJSHeapSize),
     total |-> ToMB(heap.totalJSHeapSize),
     limit |-> ToMB(heap.jsHeapSizeLimit),
     timestamp |-> t]

Grade(g, c, d) == [grade |-> g, color |-> c, description |-> d]

\* getPerformanceGrade with strict comparisons of the frame rate.
GetPerformanceGradeStrict(avgFPS, avgFrameTime) ==
    IF avgFPS > 55 /\ avgFrameTime <= 16 THEN Grade("A", "#10b981", "Excellent")
    ELSE IF avgFPS > 45 /\ avgFrameTime <= 22 THEN Grade("B", "#f59e0b", "Good")
    ELSE IF avgFPS > 30 /\ avgFrameTime <= 33 THEN Grade("C", "#f97316", "Fair")
    ELSE Grade("D", "#ef4444", "Poor")

\* getPerformanceGrade with the fifth level of the colour scale as its last row.
GetPerformanceGradeWithF(avgFPS, avgFrameTime) ==
    IF avgFPS >= 55 /\ avgFrameTime <= 16 THEN Grade("A", "#10b981", "Excellent")
    ELSE IF avgFPS >= 45 /\ avgFrameTime <= 22 THEN Grade("B", "#f59e0b", "Good")
    ELSE IF avgFPS >= 30 /\ avgFrameTime <= 33 THEN Grade("C", "#f97316", "Fair")
    ELSE IF avgFPS >= 15 THEN Grade("D", "#ef4444", "Poor")
    ELSE Grade("F", "#991b1b", "Failing")

\* getPerformanceGrade
GetPerformanceGrade(avgFPS, avgFrameTime) ==
    IF avgFPS >= 55 /\ avgFrameTime <= 16 THEN Grade("A", "#10b981", "Excellent")
    ELSE IF avgFPS >= 45 /\ avgFrameTime <= 22 THEN Grade("B", "#f59e0b", "Good")
    ELSE IF avgFPS >= 30 /\ avgFrameTime <= 33 THEN Grade("C", "#f97316", "Fair")
    ELSE Grade("D", "#ef4444", "Poor")

\* The average truncated instead of rounded.
AverageTruncated(w) == IF Len(w) > 0 THEN Sum(w) \div Len(w) ELSE 0

\* The average getPerformanceSummary computes over a window.
Average(w) == IF Len(w) > 0 THEN Round(Sum(w), Len(w)) ELSE 0

\* currentMemory is a list of zero or one memory samples: <<>> stands for null.
CurrentMemory(w) == IF Len(w) > 0 THEN <<w[Len(w)]>> ELSE <<>>

\* getPerformanceSummary on the metrics object m at instant t.
GetPerformanceSummary(m, t) ==
    [averageFPS       |-> Average(m.fps),
     averageFrameTime |-> Average(m.frameTime),
     currentMemory    |-> CurrentMemory(m.memory),
     animationCount   |-> m.animationCount,
     totalTime        |-> Round(t - m.startTime, 1000),
     performance      |-> GetPerformanceGrade(Average(m.fps), Average(m.frameTime))]

----------------------------------------------------------------------------
(* History bookkeeping *)

\* The path controller after initPathAnimations: pathAnimationState 'stopped',
\* the stroke offset at the length of the path, every dot's transition delay the
\* one of the style sheet. clicks counts the clicks on Play, Reverse and Restart.
PathInitial ==
    [state |-> "stopped", dashoffset |-> "pathLength", delay |-> "css", clicks |-> 0]

\* The panel as createPerformancePanel and addEventListeners will leave it: the
\* Stop button disabled, the other buttons enabled, '--' and 0 for the metrics,
\* no results; shown tells whether show() has put it on the page. awaiting holds
\* the invocations of runAllTests a click handler is awaiting, uncaught counts
\* the errors that left a click handler, clicks the clicks on Start, Stop and Reset.
PanelCreated ==
    [startDisabled |-> FALSE, stopDisabled |-> TRUE, runDisabled |-> FALSE,
     runText |-> "Run Tests", resultsShown |-> FALSE, frameTime |-> Dash,
     animationCount |-> 0, shown |-> FALSE, awaiting |-> {}, uncaught |-> 0, clicks |-> 0]

\* runAllTests invocation r has settled: the click handler that awaits it shows
\* the report when there is one, and its finally block restores the button.
Settled(r, fulfilled) ==
    IF r \in ui.awaiting
    THEN [ui EXCEPT !.runDisabled = FALSE, !.runText = "Run Tests",
                    !.resultsShown = fulfilled \/ @, !.awaiting = @ \ {r}]
    ELSE ui

\* The methods of PerformanceMonitor.
MonitorMethods ==
    {"startMonitoring", "stopMonitoring", "updateFPS", "updateMemory", "measureFrameTime",
     "updateFPSDisplay", "updateMemoryDisplay", "getPerformanceSummary",
     "getPerformanceGrade", "incrementAnimationCount", "decrementAnimationCount",
     "reset", "exportData"}

\* The operation a step performs, with what the state it was called in looked like.
Op(name) ==
    [op |-> name,
     wasMonitoring |-> isMonitoring,
     hadData |-> /\ metrics.fps # <<>>
                 /\ metrics.frameTime # <<>>
                 /\ metrics.animationCount > 0]

NoPushes == [fps |-> <<>>, memory |-> <<>>, frameTime |-> <<>>]

NoTally == [incs |-> 0, decs |-> 0, order |-> "incs"]

\* The tally of a behaviour that does not record one.
TallyOff == [incs |-> 0, decs |-> 0, order |-> "off"]

\* No value of exportData() is being followed.
NoExport ==
    [taken |-> FALSE, live |-> FALSE, raw |-> NewMetrics(0), atCall |-> NewMetrics(0),
     summary |-> GetPerformanceSummary(NewMetrics(0), 0)]

\* The metrics object the exported value refers to is replaced by reset(): from
\* then on the value holds the old object, which nothing changes any more.
HoldsOldObject(e, m) == IF e.live THEN [e EXCEPT !.live = FALSE, !.raw = m] ELSE e

\* What rawData of the exported value reads now.
RawData(e) == IF e.live THEN metrics ELSE e.raw

\* An invocation of runAllTests that has not been made. The fields log, base
\* and alone are history: the events of the invocation so far, the length of the
\* results list when it was made, and whether no other invocation has been in
\* flight together with it.
IdleRun ==
    [pc |-> "idle", startTime |-> 0, pageHeight |-> 0, scrollSteps |-> 0, i |-> 0,
     delay |-> 0, elements |-> <<>>, report |-> <<>>, log |-> <<>>,
     base |-> 0, alone |-> TRUE]

NoCall == [fn |-> "none", avgFPS |-> 0, avgFrameTime |-> 0, result |-> "none"]

\* Increments first, then decrements; any other order is recorded as "mixed".
TallyInc(t) ==
    IF t.order = "incs" THEN [t EXCEPT !.incs = t.incs + 1]
    ELSE IF t.order = "off" THEN t
    ELSE [incs |-> 0, decs |-> 0, order |-> "mixed"]

TallyDec(t) ==
    IF t.order \in {"mixed", "off"} THEN t
    ELSE [t EXCEPT !.decs = Min(t.decs + 1, MaxAnim + 1), !.order = "decs"]

----------------------------------------------------------------------------
(* PerformanceMonitor: operations *)

\* A timer callback: the function, and for the callbacks of a scenario the
\* invocation, the index and the element its closure holds.
Callback(fn, run, idx, el) == [fn |-> fn, run |-> run, idx |-> idx, el |-> el]

Cb(fn) == Callback(fn, 0, 0, 0)

\* clearInterval(id)
ClearInterval(T, id) == { t \in T : t.id # id }

\* measureFrameTime(): arms one animation-frame callback unless the sampler is stopped.
MeasureFrameTime(q, running, t) == IF ~running THEN q ELSE Append(q, t)

\* startMonitoring() without its early return.
startMonitoringUnguarded ==
    /\ isMonitoring' = TRUE
    /\ metrics' = [metrics EXCEPT !.startTime = now]
    /\ fpsInterval' = nextTimerId
    /\ memoryInterval' = nextTimerId + 1
    /\ timers' = timers \cup
           {NewTimer(nextTimerId, Cb("updateFPS"), FpsPeriod, FpsPeriod),
            NewTimer(nextTimerId + 1, Cb("updateMemory"), MemoryPeriod, MemoryPeriod)}
    /\ nextTimerId' = nextTimerId + 2
    /\ rafQueue' = MeasureFrameTime(rafQueue, TRUE, now)
    /\ afterStop' = 0
    /\ sinceTick' = [time |-> now, frames |-> 0]
    /\ UNCHANGED <<frameCount, lastTime>>

\* startMonitoring()
startMonitoring ==
    IF isMonitoring
    THEN UNCHANGED <<monitorVars, timers, nextTimerId, rafQueue, afterStop, sinceTick>>
    ELSE /\ isMonitoring' = TRUE
         /\ sinceTick' = [time |-> now, frames |-> 0]
         /\ metrics' = [metrics EXCEPT !.startTime = now]
         /\ fpsInterval' = nextTimerId
         /\ memoryInterval' = nextTimerId + 1
         /\ timers' = timers \cup
                {NewTimer(nextTimerId, Cb("updateFPS"), FpsPeriod, FpsPeriod),
                 NewTimer(nextTimerId + 1, Cb("updateMemory"), MemoryPeriod, MemoryPeriod)}
         /\ nextTimerId' = nextTimerId + 2
         /\ rafQueue' = MeasureFrameTime(rafQueue, TRUE, now)
         /\ afterStop' = 0
         /\ UNCHANGED <<frameCount, lastTime>>

\* stopMonitoring() that forgets to cancel the memory interval.
stopMonitoringLeavesMemory ==
    IF ~isMonitoring
    THEN UNCHANGED <<monitorVars, timers, nextTimerId, rafQueue, afterStop>>
    ELSE /\ isMonitoring' = FALSE
         /\ timers' = ClearInterval(timers, fpsInterval)
         /\ fpsInterval' = Null
         /\ memoryInterval' = Null
         /\ afterStop' = 0
         /\ UNCHANGED <<metrics, frameCount, lastTime, nextTimerId, rafQueue>>

\* stopMonitoring()
stopMonitoring ==
    IF ~isMonitoring
    THEN UNCHANGED <<monitorVars, timers, nextTimerId, rafQueue, afterStop>>
    ELSE /\ isMonitoring' = FALSE
         /\ timers' = ClearInterval(ClearInterval(timers, fpsInterval), memoryInterval)
         /\ fpsInterval' = Null
         /\ memoryInterval' = Null
         /\ afterStop' = 0
         /\ UNCHANGED <<metrics, frameCount, lastTime, nextTimerId, rafQueue>>

\* A caller outside the module (page script, console) calls startMonitoring().
StartMonitoring ==
    /\ job = 0
    /\ isMonitoring \/ nextTimerId + 1 <= MaxTimers
    /\ startMonitoring
    /\ last' = Op("startMonitoring")
    /\ UNCHANGED <<now, horizon, hasMemory, panel, dom, pushed, tally, call, runVars>>
    /\ UNCHANGED <<exported, ui, pathCtl>>

\* A caller outside the module calls stopMonitoring().
StopMonitoring ==
    /\ job = 0
    /\ stopMonitoring
    /\ last' = Op("stopMonitoring")
    /\ UNCHANGED <<now, horizon, hasMemory, panel, dom, pushed, tally, call, runVars>>
    /\ UNCHANGED <<exported, sinceTick, ui, pathCtl>>

\* The host runs updateFPS, the callback of the interval tm.
UpdateFPS(tm) ==
    /\ TimerReady(tm)
    /\ tm.cb.fn = "updateFPS"
    /\ LET \* the clock read by the tick is later than the one lastTime was read from
           currentTime == Max(TimerFireTime(tm), lastTime + 1)
           deltaTime   == currentTime - lastTime
           fps         == Round(frameCount * 1000, deltaTime)
       IN  /\ now' = currentTime
           /\ metrics' = [metrics EXCEPT !.fps = PushFps(metrics.fps, fps)]
           /\ frameCount' = 0
           /\ lastTime' = currentTime
           /\ dom' = UpdateFPSDisplay(dom, fps)
           /\ timers' = Rearm(timers, tm, currentTime)
           /\ pushed' = [pushed EXCEPT !.fps = Append(pushed.fps, fps)]
           /\ sinceTick' = [time |-> currentTime, frames |-> 0]
    /\ last' = Op("updateFPS")
    /\ UNCHANGED <<horizon, nextTimerId, rafQueue, hasMemory, panel, isMonitoring,
                   fpsInterval, memoryInterval, afterStop, tally, call, runVars>>
    /\ UNCHANGED <<exported, ui, pathCtl>>

\* updateMemory without the test for performance.memory.
UpdateMemoryUnchecked(tm, heap) ==
    /\ TimerReady(tm)
    /\ tm.cb.fn = "updateMemory"
    /\ LET t    == TimerFireTime(tm)
           info == MemoryInfo(heap, t)
       IN  /\ now' = t
           /\ timers' = Rearm(timers, tm, t)
           /\ metrics' = [metrics EXCEPT !.memory = PushMemory(metrics.memory, info)]
           /\ dom' = UpdateMemoryDisplay(dom, info)
           /\ pushed' = [pushed EXCEPT !.memory = Append(pushed.memory, info)]
    /\ last' = Op("updateMemory")
    /\ UNCHANGED <<horizon, nextTimerId, rafQueue, hasMemory, panel, isMonitoring,
                   fpsInterval, memoryInterval, frameCount, lastTime, afterStop, tally, call, runVars>>
    /\ UNCHANGED <<exported, sinceTick, ui, pathCtl>>

\* The host runs updateMemory, the callback of the interval tm; heap is what
\* performance.memory reads when the host has it.
UpdateMemory(tm, heap) ==
    /\ TimerReady(tm)
    /\ tm.cb.fn = "updateMemory"
    /\ LET t    == TimerFireTime(tm)
           info == MemoryInfo(heap, t)
       IN  /\ now' = t
           /\ timers' = Rearm(timers, tm, t)
           /\ IF hasMemory
              THEN /\ metrics' = [metrics EXCEPT !.memory = PushMemory(metrics.memory, info)]
                   /\ dom' = UpdateMemoryDisplay(dom, info)
                   /\ pushed' = [pushed EXCEPT !.memory = Append(pushed.memory, info)]
              ELSE UNCHANGED <<metrics, dom, pushed>>
    /\ last' = Op("updateMemory")
    /\ UNCHANGED <<horizon, nextTimerId, rafQueue, hasMemory, panel, isMonitoring,
                   fpsInterval, memoryInterval, frameCount, lastTime, afterStop, tally, call, runVars>>
    /\ UNCHANGED <<exported, sinceTick, ui, pathCtl>>

\* The host runs the animation-frame callback armed by measureFrameTime.
FrameCallback ==
    /\ FrameReady
    /\ LET frameStart == Head(rafQueue)
           frameEnd   == FrameFireTime
           frameTime  == frameEnd - frameStart
       IN  /\ now' = frameEnd
           /\ metrics' = [metrics EXCEPT
                             !.frameTime = PushFrameTime(metrics.frameTime, frameTime)]
           /\ frameCount' = frameCount + 1
           /\ rafQueue' = MeasureFrameTime(Tail(rafQueue), isMonitoring, frameEnd)
           /\ pushed' = [pushed EXCEPT !.frameTime = Append(pushed.frameTime, frameTime)]
    /\ afterStop' = IF isMonitoring THEN 0 ELSE afterStop + 1
    /\ sinceTick' = [sinceTick EXCEPT !.frames = sinceTick.frames + 1]
    /\ last' = Op("frame")
    /\ UNCHANGED <<horizon, timers, nextTimerId, hasMemory, panel, dom, isMonitoring,
                   fpsInterval, memoryInterval, lastTime, tally, call, runVars>>
    /\ UNCHANGED <<exported, ui, pathCtl>>

\* incrementAnimationCount()
IncrementAnimationCount ==
    /\ job = 0
    /\ metrics.animationCount < MaxAnim
    /\ metrics' = [metrics EXCEPT !.animationCount = metrics.animationCount + 1]
    /\ tally' = TallyInc(tally)
    /\ last' = Op("incrementAnimationCount")
    /\ UNCHANGED <<hostVars, isMonitoring, fpsInterval, memoryInterval, frameCount,
                   lastTime, pushed, afterStop, call, runVars>>
    /\ UNCHANGED <<exported, sinceTick, ui, pathCtl>>

\* decrementAnimationCount() without the floor at zero.
DecrementUnclamped ==
    /\ job = 0
    /\ metrics' = [metrics EXCEPT !.animationCount = metrics.animationCount - 1]
    /\ tally' = TallyDec(tally)
    /\ last' = Op("decrementAnimationCount")
    /\ UNCHANGED <<hostVars, isMonitoring, fpsInterval, memoryInterval, frameCount,
                   lastTime, pushed, afterStop, call, runVars>>
    /\ UNCHANGED <<exported, sinceTick, ui, pathCtl>>

\* decrementAnimationCount()
DecrementAnimationCount ==
    /\ job = 0
    /\ metrics' = IF metrics.animationCount > 0
                  THEN [metrics EXCEPT !.animationCount = metrics.animationCount - 1]
                  ELSE metrics
    /\ tally' = TallyDec(tally)
    /\ last' = Op("decrementAnimationCount")
    /\ UNCHANGED <<hostVars, isMonitoring, fpsInterval, memoryInterval, frameCount,
                   lastTime, pushed, afterStop, call, runVars>>
    /\ UNCHANGED <<exported, sinceTick, ui, pathCtl>>

\* getPerformanceGrade called on its own with the arguments held in call.
CallGetPerformanceGrade ==
    /\ call.fn = "pending"
    /\ call' = [call EXCEPT !.fn = "getPerformanceGrade",
                            !.result = GetPerformanceGrade(call.avgFPS, call.avgFrameTime).grade]
    /\ last' = Op("getPerformanceGrade")
    /\ UNCHANGED <<monitorVars, hostVars, pushed, afterStop, tally, runVars>>
    /\ UNCHANGED <<exported, sinceTick, ui, pathCtl>>

\* reset() that keeps the animation counter.
ResetKeepsCounter ==
    /\ job = 0
    /\ metrics' = [NewMetrics(now) EXCEPT !.animationCount = metrics.animationCount]
    /\ frameCount' = 0
    /\ lastTime' = now
    /\ pushed' = NoPushes
    /\ tally' = IF tally.order = "off" THEN tally ELSE NoTally
    /\ last' = Op("reset")
    /\ exported' = HoldsOldObject(exported, metrics)
    /\ sinceTick' = [time |-> now, frames |-> 0]
    /\ UNCHANGED <<hostVars, isMonitoring, fpsInterval, memoryInterval, afterStop, call, runVars, ui, pathCtl>>

\* reset() that also drops the armed frame probe.
ResetDropsProbe ==
    /\ job = 0
    /\ metrics' = NewMetrics(now)
    /\ frameCount' = 0
    /\ lastTime' = now
    /\ rafQueue' = <<>>
    /\ pushed' = NoPushes
    /\ tally' = IF tally.order = "off" THEN tally ELSE NoTally
    /\ last' = Op("reset")
    /\ exported' = HoldsOldObject(exported, metrics)
    /\ sinceTick' = [time |-> now, frames |-> 0]
    /\ UNCHANGED <<now, horizon, timers, nextTimerId, hasMemory, panel, dom, isMonitoring,
                   fpsInterval, memoryInterval, afterStop, call, runVars, ui, pathCtl>>

\* reset()
Reset ==
    /\ job = 0
    /\ metrics' = NewMetrics(now)
    /\ frameCount' = 0
    /\ lastTime' = now
    /\ pushed' = NoPushes
    /\ tally' = IF tally.order = "off" THEN tally ELSE NoTally
    /\ last' = Op("reset")
    /\ exported' = HoldsOldObject(exported, metrics)
    /\ sinceTick' = [time |-> now, frames |-> 0]
    /\ UNCHANGED <<hostVars, isMonitoring, fpsInterval, memoryInterval, afterStop, call, runVars, ui, pathCtl>>


\* exportData(): the summary is computed, rawData is the metrics object itself.
\* atCall is history: the content of the metrics object at the call.
ExportData ==
    /\ job = 0
    /\ ~exported.taken
    /\ exported' = [taken |-> TRUE, live |-> TRUE, raw |-> metrics, atCall |-> metrics,
                    summary |-> GetPerformanceSummary(metrics, now)]
    /\ last' = Op("exportData")
    /\ UNCHANGED <<monitorVars, hostVars, pushed, afterStop, tally, call, runVars, sinceTick, ui, pathCtl>>

----------------------------------------------------------------------------
(* AnimationPerformanceTester *)

ScrollWaitBack == 1000
StaggerSettle == 1000
SvgSettle == 2500
SynthCount == 20

\* Math.ceil(a / b) for a >= 0, b > 0
Ceil(a, b) == (a + b - 1) \div b

StaggerSelectors ==
    <<"stagger-item", "feature-tag", "title-line", "card", "doc-card", "analysis-card",
      "performance-card">>

SvgSelectors ==
    <<"draw-path", "path[stroke-dasharray]", "animated-path", "svg path", "svg line",
      "svg circle", "svg rect">>

\* Whether element n of the element set N matches the i-th selector of the SVG list.
MatchesSvg(N, n, i) ==
    CASE i = 1 -> "draw-path" \in n.classes
      [] i = 2 -> n.tag = "path" /\ n.dasharray
      [] i = 3 -> "animated-path" \in n.classes
      [] i = 4 -> n.tag = "path" /\ InsideSvg(N, n)
      [] i = 5 -> n.tag = "line" /\ InsideSvg(N, n)
      [] i = 6 -> n.tag = "circle" /\ InsideSvg(N, n)
      [] OTHER -> n.tag = "rect" /\ InsideSvg(N, n)

\* selectors.forEach(selector => all = all.concat(querySelectorAll(selector)))
RECURSIVE StaggerElements(_, _)
StaggerElements(N, i) ==
    IF i > Len(StaggerSelectors) THEN <<>>
    ELSE QuerySelectorAll(N, { n \in N : StaggerSelectors[i] \in n.classes })
             \o StaggerElements(N, i + 1)

RECURSIVE SvgElements(_, _)
SvgElements(N, i) ==
    IF i > Len(SvgSelectors) THEN <<>>
    ELSE QuerySelectorAll(N, { n \in N : MatchesSvg(N, n, i) }) \o SvgElements(N, i + 1)

\* The classification with the decorative count compared by >=.
HasHeavyAnimationsFromTen == page.decorative >= 10

\* querySelectorAll('.particle, .orbital-element, .shape, .wave').length > 10
HasHeavyAnimations == page.decorative > 10

\* pathname.includes('gsap-version') || pathname.includes('vanilla-version')
IsDemoPage ==
    \E i \in 1..Len(page.path) : page.path[i] \in {"gsap-version", "vanilla-version"}

\* The number of steps with the quotient rounded down.
ScrollStepsForFloor(pageHeight) ==
    IF HasHeavyAnimations \/ IsDemoPage THEN pageHeight \div 200 ELSE pageHeight \div 100

ScrollStepsFor(pageHeight) ==
    IF HasHeavyAnimations \/ IsDemoPage THEN Ceil(pageHeight, 200) ELSE Ceil(pageHeight, 100)

StepDelay == IF HasHeavyAnimations \/ IsDemoPage THEN 300 ELSE 150

StaggerDelay == IF HasHeavyAnimations \/ IsDemoPage THEN 120 ELSE 80

AnimationDelay == IF HasHeavyAnimations \/ IsDemoPage THEN 300 ELSE 200

\* The page type taken from the pacing tier instead of the decorative count.
PageTypeOfTier == IF HasHeavyAnimations \/ IsDemoPage THEN "Heavy" ELSE "Light"

\* pageType: hasHeavyAnimations ? 'Heavy' : 'Light'
PageType == IF HasHeavyAnimations THEN "Heavy" ELSE "Light"

\* Math.min(i * (pageHeight / scrollSteps), pageHeight), as the fraction num / den
ScrollPosition(i, pageHeight, scrollSteps) ==
    [num |-> Min(i * pageHeight, pageHeight * scrollSteps), den |-> scrollSteps]

ScrollTop == [num |-> 0, den |-> 1]

\* document.querySelector(...) for an element with the tag whose style holds
\* "-1000px": the first one in document order, <<>> when there is none.
QueryOffscreen(N, tag) ==
    LET found == QuerySelectorAll(N, { n \in N : n.tag = tag /\ n.offscreen })
    IN  IF found = <<>> THEN <<>> ELSE <<found[1]>>

\* document.body.removeChild(el), for an element that is a child of body
RemoveChild(N, id) ==
    { IF n.id = id THEN [n EXCEPT !.parent = Detached] ELSE n : n \in N }

\* The element with its animation applied once more.
Animate(N, id, cls) ==
    { IF n.id = id
      THEN [n EXCEPT !.classes = n.classes \cup cls, !.animated = n.animated + 1]
      ELSE n : n \in N }

\* The timeouts of a scheduling pass that counts the elements from one.
TimersForFromOne(t, firstId, r, fn, elements, delay) ==
    { NewTimerAt(t, firstId + k - 1, Callback(fn, r, k, elements[k]), k * delay, 0)
        : k \in 1..Len(elements) }

TimersFor(t, firstId, r, fn, elements, delay) ==
    { NewTimerAt(t, firstId + k - 1, Callback(fn, r, k, elements[k]), (k - 1) * delay, 0)
        : k \in 1..Len(elements) }

WaitTimer(t, id, r, ms) == NewTimerAt(t, id, Callback("wait", r, 0, 0), ms, 0)

\* The invocation has been made and has neither returned nor failed.
InFlight(r) == runs[r].pc \notin {"idle", "done", "failed"}

Logged(r, events) == [runs EXCEPT ![r].log = runs[r].log \o events]

\* runAllTests(): the call, up to the start of the first scenario.
runAllTests(r) ==
    /\ job = 0
    /\ runs[r].pc = "idle"
    /\ \A q \in 1..(r - 1) : runs[q].pc # "idle"
    /\ startMonitoring
    /\ last' = Op("startMonitoring")
    /\ runs' = [q \in 1..MaxRuns |->
                   IF q = r
                   THEN [runs[r] EXCEPT !.pc = "scrollStart",
                                        !.log = <<"startMonitoring">>,
                                        !.base = Len(testResults),
                                        !.alone = \A o \in 1..MaxRuns : ~InFlight(o)]
                   ELSE IF InFlight(q) THEN [runs[q] EXCEPT !.alone = FALSE]
                   ELSE runs[q]]
    /\ job' = r
    /\ UNCHANGED <<now, horizon, hasMemory, panel, dom, pushed, tally, call,
                   page, nodes, nextNodeId, scroll, testResults>>
    /\ UNCHANGED exported

\* A caller outside the panel (page script, console) calls runAllTests().
RunAllTests(r) ==
    /\ runAllTests(r)
    /\ UNCHANGED <<ui, pathCtl>>

\* testScrollAnimations(): up to the first wait.
TestScrollStart(r) ==
    /\ job = r
    /\ runs[r].pc = "scrollStart"
    /\ LET pageHeight  == page.height
           scrollSteps == ScrollStepsFor(pageHeight)
       IN  /\ scroll' = Append(scroll, ScrollPosition(0, pageHeight, scrollSteps))
           /\ runs' = [Logged(r, <<"scrollStart">>) EXCEPT
                          ![r].pc = "scrollLoop", ![r].startTime = now,
                          ![r].pageHeight = pageHeight, ![r].scrollSteps = scrollSteps,
                          ![r].delay = StepDelay, ![r].i = 0]
    /\ timers' = timers \cup {WaitTimer(now, nextTimerId, r, StepDelay)}
    /\ nextTimerId' = nextTimerId + 1
    /\ job' = 0
    /\ last' = Op("testScrollAnimations")
    /\ UNCHANGED <<monitorVars, now, horizon, rafQueue, hasMemory, panel, dom, pushed,
                   afterStop, tally, call, page, nodes, nextNodeId, testResults>>
    /\ UNCHANGED <<exported, sinceTick, ui, pathCtl>>

\* The wait of a scroll step is over: the next step, or the scroll back to the top.
ScrollStep(tm) ==
    /\ TimerReady(tm)
    /\ tm.cb.fn = "wait"
    /\ runs[tm.cb.run].pc = "scrollLoop"
    /\ LET r == tm.cb.run
           t == TimerFireTime(tm)
           i == runs[r].i + 1
       IN  /\ now' = t
           /\ IF i <= runs[r].scrollSteps
              THEN /\ scroll' = Append(scroll,
                                   ScrollPosition(i, runs[r].pageHeight, runs[r].scrollSteps))
                   /\ timers' = (timers \ {tm})
                                   \cup {WaitTimer(t, nextTimerId, r, runs[r].delay)}
                   /\ runs' = [runs EXCEPT ![r].i = i]
              ELSE /\ scroll' = Append(scroll, ScrollTop)
                   /\ timers' = (timers \ {tm})
                                   \cup {WaitTimer(t, nextTimerId, r, ScrollWaitBack)}
                   /\ runs' = [runs EXCEPT ![r].i = i, ![r].pc = "scrollBack"]
    /\ nextTimerId' = nextTimerId + 1
    /\ last' = Op("testScrollAnimations")
    /\ UNCHANGED <<monitorVars, horizon, rafQueue, hasMemory, panel, dom, pushed,
                   afterStop, tally, call, page, nodes, nextNodeId, testResults, job>>
    /\ UNCHANGED <<exported, sinceTick, ui, pathCtl>>

\* testScrollAnimations finishing with a results list that holds its entry only.
ScrollFinishStartsOver(tm) ==
    /\ TimerReady(tm)
    /\ tm.cb.fn = "wait"
    /\ runs[tm.cb.run].pc = "scrollBack"
    /\ LET r == tm.cb.run
           t == TimerFireTime(tm)
           duration == t - runs[r].startTime
       IN  /\ now' = t
           /\ testResults' = Append(<<>>,
                  [test |-> "Scroll Animations", duration |-> duration, timestamp |-> t,
                   details |-> [pageHeight |-> runs[r].pageHeight,
                                scrollSteps |-> runs[r].scrollSteps,
                                stepDelay |-> runs[r].delay,
                                totalDistance |-> runs[r].pageHeight * 2,
                                pageType |-> PageType,
                                isDemoPage |-> IsDemoPage]])
           /\ runs' = [Logged(r, <<"scrollResult">>) EXCEPT
                          ![r].pc = "staggerStart",
                          ![r].report = runs[r].report @@ ("scrollAnimations" :> duration)]
           /\ job' = r
    /\ timers' = timers \ {tm}
    /\ last' = Op("testScrollAnimations")
    /\ UNCHANGED <<monitorVars, horizon, nextTimerId, rafQueue, hasMemory, panel, dom,
                   pushed, afterStop, tally, call, page, nodes, nextNodeId, scroll>>
    /\ UNCHANGED <<exported, sinceTick, ui, pathCtl>>

\* The last wait of testScrollAnimations is over: it records its result and returns.
ScrollFinish(tm) ==
    /\ TimerReady(tm)
    /\ tm.cb.fn = "wait"
    /\ runs[tm.cb.run].pc = "scrollBack"
    /\ LET r == tm.cb.run
           t == TimerFireTime(tm)
           duration == t - runs[r].startTime
       IN  /\ now' = t
           /\ testResults' = Append(testResults,
                  [test |-> "Scroll Animations", duration |-> duration, timestamp |-> t,
                   details |-> [pageHeight |-> runs[r].pageHeight,
                                scrollSteps |-> runs[r].scrollSteps,
                                stepDelay |-> runs[r].delay,
                                totalDistance |-> runs[r].pageHeight * 2,
                                pageType |-> PageType,
                                isDemoPage |-> IsDemoPage]])
           /\ runs' = [Logged(r, <<"scrollResult">>) EXCEPT
                          ![r].pc = "staggerStart",
                          ![r].report = runs[r].report @@ ("scrollAnimations" :> duration)]
           /\ job' = r
    /\ timers' = timers \ {tm}
    /\ last' = Op("testScrollAnimations")
    /\ UNCHANGED <<monitorVars, horizon, nextTimerId, rafQueue, hasMemory, panel, dom,
                   pushed, afterStop, tally, call, page, nodes, nextNodeId, scroll>>
    /\ UNCHANGED <<exported, sinceTick, ui, pathCtl>>

\* testStaggerAnimations(): up to its wait.
TestStaggerStart(r) ==
    /\ job = r
    /\ runs[r].pc = "staggerStart"
    /\ LET found       == StaggerElements(nodes, 1)
           container   == Node(nextNodeId, "div", Body, {}, TRUE, FALSE)
           created     == { Node(nextNodeId + k, "div", nextNodeId, {"stagger-test-element"},
                                 FALSE, FALSE) : k \in 1..SynthCount }
           allElements == IF found = <<>> THEN [k \in 1..SynthCount |-> nextNodeId + k]
                          ELSE found
           n           == Len(allElements)
       IN  /\ IF found = <<>>
              THEN /\ nodes' = nodes \cup {container} \cup created
                   /\ nextNodeId' = nextNodeId + SynthCount + 1
              ELSE UNCHANGED <<nodes, nextNodeId>>
           /\ timers' = timers
                 \cup TimersFor(now, nextTimerId, r, "reveal", allElements, StaggerDelay)
                 \cup {WaitTimer(now, nextTimerId + n, r, n * StaggerDelay + StaggerSettle)}
           /\ nextTimerId' = nextTimerId + n + 1
           /\ runs' = [Logged(r, <<"staggerStart">>) EXCEPT
                          ![r].pc = "staggerWait", ![r].startTime = now,
                          ![r].elements = allElements, ![r].delay = StaggerDelay]
    /\ job' = 0
    /\ last' = Op("testStaggerAnimations")
    /\ UNCHANGED <<monitorVars, now, horizon, rafQueue, hasMemory, panel, dom, pushed,
                   afterStop, tally, call, page, scroll, testResults>>
    /\ UNCHANGED <<exported, sinceTick, ui, pathCtl>>

\* The timeout of one staggered reveal.
Reveal(tm) ==
    /\ TimerReady(tm)
    /\ tm.cb.fn = "reveal"
    /\ now' = TimerFireTime(tm)
    /\ nodes' = Animate(nodes, tm.cb.el, {"animate-in"})
    /\ timers' = timers \ {tm}
    /\ last' = Op("reveal")
    /\ UNCHANGED <<monitorVars, horizon, nextTimerId, rafQueue, hasMemory, panel, dom,
                   pushed, afterStop, tally, call, page, nextNodeId, scroll, runs,
                   testResults, job>>
    /\ UNCHANGED <<exported, sinceTick, ui, pathCtl>>

\* The end of testStaggerAnimations with a clean-up that swallows the error of
\* removeChild and carries on.
StaggerFinishSwallows(tm) ==
    /\ TimerReady(tm)
    /\ tm.cb.fn = "wait"
    /\ runs[tm.cb.run].pc = "staggerWait"
    /\ LET r == tm.cb.run
           t == TimerFireTime(tm)
           testContainer == QueryOffscreen(nodes, "div")
           duration == t - runs[r].startTime
       IN  /\ now' = t
           /\ nodes' = IF testContainer = <<>> THEN nodes
                       ELSE IF NodeOf(nodes, testContainer[1]).parent # Body THEN nodes
                       ELSE RemoveChild(nodes, testContainer[1])
           /\ testResults' = Append(testResults,
                  [test |-> "Stagger Animations", duration |-> duration,
                   timestamp |-> t,
                   details |-> [elementCount |-> Len(runs[r].elements),
                                staggerDelay |-> runs[r].delay,
                                pageType |-> PageType,
                                isDemoPage |-> IsDemoPage]])
           /\ runs' = [Logged(r, <<"staggerResult">>) EXCEPT
                          ![r].pc = "svgStart",
                          ![r].report = runs[r].report @@ ("staggerAnimations" :> duration)]
           /\ job' = r
    /\ timers' = timers \ {tm}
    /\ last' = Op("testStaggerAnimations")
    /\ UNCHANGED <<monitorVars, horizon, nextTimerId, rafQueue, hasMemory, panel, dom,
                   pushed, afterStop, tally, call, page, nextNodeId, scroll>>
    /\ UNCHANGED <<exported, sinceTick, ui, pathCtl>>

\* The wait of testStaggerAnimations is over: clean-up, result, return.
StaggerFinish(tm) ==
    /\ TimerReady(tm)
    /\ tm.cb.fn = "wait"
    /\ runs[tm.cb.run].pc = "staggerWait"
    /\ LET r == tm.cb.run
           t == TimerFireTime(tm)
           testContainer == QueryOffscreen(nodes, "div")
           duration == t - runs[r].startTime
       IN  /\ now' = t
           /\ IF testContainer # <<>> /\ NodeOf(nodes, testContainer[1]).parent # Body
              THEN \* removeChild throws: the scenario and runAllTests reject
                   /\ runs' = [runs EXCEPT ![r].pc = "failed"]
                   /\ job' = 0
                   /\ UNCHANGED <<nodes, testResults>>
              ELSE /\ nodes' = IF testContainer = <<>> THEN nodes
                               ELSE RemoveChild(nodes, testContainer[1])
                   /\ testResults' = Append(testResults,
                          [test |-> "Stagger Animations", duration |-> duration,
                           timestamp |-> t,
                           details |-> [elementCount |-> Len(runs[r].elements),
                                        staggerDelay |-> runs[r].delay,
                                        pageType |-> PageType,
                                        isDemoPage |-> IsDemoPage]])
                   /\ runs' = [Logged(r, <<"staggerResult">>) EXCEPT
                                  ![r].pc = "svgStart",
                                  ![r].report =
                                      runs[r].report @@ ("staggerAnimations" :> duration)]
                   /\ job' = r
    /\ timers' = timers \ {tm}
    /\ last' = Op("testStaggerAnimations")
    /\ UNCHANGED <<monitorVars, horizon, nextTimerId, rafQueue, hasMemory, panel, dom,
                   pushed, afterStop, tally, call, page, nextNodeId, scroll>>
    /\ UNCHANGED <<exported, sinceTick>>
    /\ ui' = IF runs'[tm.cb.run].pc = "failed" THEN Settled(tm.cb.run, FALSE) ELSE ui
    /\ UNCHANGED pathCtl

\* testSVGAnimations(): up to its wait.
TestSVGStart(r) ==
    /\ job = r
    /\ runs[r].pc = "svgStart"
    /\ LET found       == SvgElements(nodes, 1)
           testSVG     == Node(nextNodeId, "svg", Body, {}, TRUE, FALSE)
           testPath    == Node(nextNodeId + 1, "path", nextNodeId, {"draw-path"}, FALSE, TRUE)
           svgElements == IF found = <<>> THEN <<nextNodeId + 1>> ELSE found
           n           == Len(svgElements)
       IN  /\ IF found = <<>>
              THEN /\ nodes' = nodes \cup {testSVG, testPath}
                   /\ nextNodeId' = nextNodeId + 2
              ELSE UNCHANGED <<nodes, nextNodeId>>
           /\ timers' = timers
                 \cup TimersFor(now, nextTimerId, r, "animate", svgElements, AnimationDelay)
                 \cup {WaitTimer(now, nextTimerId + n, r, n * AnimationDelay + SvgSettle)}
           /\ nextTimerId' = nextTimerId + n + 1
           /\ runs' = [Logged(r, <<"svgStart">>) EXCEPT
                          ![r].pc = "svgWait", ![r].startTime = now,
                          ![r].elements = svgElements, ![r].delay = AnimationDelay]
    /\ job' = 0
    /\ last' = Op("testSVGAnimations")
    /\ UNCHANGED <<monitorVars, now, horizon, rafQueue, hasMemory, panel, dom, pushed,
                   afterStop, tally, call, page, scroll, testResults>>
    /\ UNCHANGED <<exported, sinceTick, ui, pathCtl>>

\* The timeout that animates one SVG element (path, line, circle or rect).
SvgAnimate(tm) ==
    /\ TimerReady(tm)
    /\ tm.cb.fn = "animate"
    /\ now' = TimerFireTime(tm)
    /\ nodes' = IF NodeOf(nodes, tm.cb.el).tag \in {"path", "line", "circle", "rect"}
                THEN Animate(nodes, tm.cb.el, {})
                ELSE nodes
    /\ timers' = timers \ {tm}
    /\ last' = Op("animate")
    /\ UNCHANGED <<monitorVars, horizon, nextTimerId, rafQueue, hasMemory, panel, dom,
                   pushed, afterStop, tally, call, page, nextNodeId, scroll, runs,
                   testResults, job>>
    /\ UNCHANGED <<exported, sinceTick, ui, pathCtl>>

\* The wait of testSVGAnimations is over: clean-up, result, return.
SvgFinish(tm) ==
    /\ TimerReady(tm)
    /\ tm.cb.fn = "wait"
    /\ runs[tm.cb.run].pc = "svgWait"
    /\ LET r == tm.cb.run
           t == TimerFireTime(tm)
           testSVG == QueryOffscreen(nodes, "svg")
           duration == t - runs[r].startTime
           types == { NodeOf(nodes, runs[r].elements[k]).tag : k \in 1..Len(runs[r].elements) }
       IN  /\ now' = t
           /\ IF testSVG # <<>> /\ NodeOf(nodes, testSVG[1]).parent # Body
              THEN /\ runs' = [runs EXCEPT ![r].pc = "failed"]
                   /\ job' = 0
                   /\ UNCHANGED <<nodes, testResults>>
              ELSE /\ nodes' = IF testSVG = <<>> THEN nodes
                               ELSE RemoveChild(nodes, testSVG[1])
                   /\ testResults' = Append(testResults,
                          [test |-> "SVG Path Animations", duration |-> duration,
                           timestamp |-> t,
                           details |-> [elementCount |-> Len(runs[r].elements),
                                        elementTypes |-> types,
                                        animationDelay |-> runs[r].delay,
                                        pageType |-> PageType,
                                        isDemoPage |-> IsDemoPage]])
                   /\ runs' = [Logged(r, <<"svgResult">>) EXCEPT
                                  ![r].pc = "summary",
                                  ![r].report =
                                      runs[r].report @@ ("svgAnimations" :> duration)]
                   /\ job' = r
    /\ timers' = timers \ {tm}
    /\ last' = Op("testSVGAnimations")
    /\ UNCHANGED <<monitorVars, horizon, nextTimerId, rafQueue, hasMemory, panel, dom,
                   pushed, afterStop, tally, call, page, nextNodeId, scroll>>
    /\ UNCHANGED <<exported, sinceTick>>
    /\ ui' = IF runs'[tm.cb.run].pc = "failed" THEN Settled(tm.cb.run, FALSE) ELSE ui
    /\ UNCHANGED pathCtl

\* The end of runAllTests with the sampler stopped before its summary is read.
RunAllTestsFinishStopsFirst(r) ==
    /\ job = r
    /\ runs[r].pc = "summary"
    /\ stopMonitoring
    /\ runs' = [Logged(r, <<"stopMonitoring", "summary", "return">>) EXCEPT
                   ![r].pc = "done",
                   ![r].report = runs[r].report
                                    @@ ("summary" :> GetPerformanceSummary(metrics, now))]
    /\ job' = 0
    /\ last' = Op("stopMonitoring")
    /\ UNCHANGED <<now, horizon, hasMemory, panel, dom, pushed, tally, call,
                   page, nodes, nextNodeId, scroll, testResults>>
    /\ UNCHANGED <<exported, sinceTick>>
    /\ ui' = Settled(r, TRUE)
    /\ UNCHANGED pathCtl

\* The end of runAllTests: the summary is read, the sampler stopped, the report returned.
RunAllTestsFinish(r) ==
    /\ job = r
    /\ runs[r].pc = "summary"
    /\ runs' = [Logged(r, <<"summary", "stopMonitoring", "return">>) EXCEPT
                   ![r].pc = "done",
                   ![r].report = runs[r].report
                                    @@ ("summary" :> GetPerformanceSummary(metrics, now))]
    /\ stopMonitoring
    /\ job' = 0
    /\ last' = Op("stopMonitoring")
    /\ UNCHANGED <<now, horizon, hasMemory, panel, dom, pushed, tally, call,
                   page, nodes, nextNodeId, scroll, testResults>>
    /\ UNCHANGED <<exported, sinceTick>>
    /\ ui' = Settled(r, TRUE)
    /\ UNCHANGED pathCtl

----------------------------------------------------------------------------
(* The performance panel on a demo page *)

AutoStartDelay == 1000
RefreshPeriod == 1000

\* A demo page whose own off-screen div lies inside a card.
BrokenDemoPage ==
    [height |-> 300, decorative |-> 10, path |-> <<"vanilla-version", "index.html">>,
     nodes |-> { Node(1, "div", Body, {"card"}, FALSE, FALSE),
                 Node(2, "div", 1, {}, TRUE, FALSE) }]

PanelPages == {DemoPage, BrokenDemoPage}

\* getFPSColor of PerformanceUI, for a number
GetFPSColor(fps) ==
    IF fps >= 55 THEN "#10b981" ELSE IF fps >= 30 THEN "#f59e0b" ELSE "#ef4444"

\* initPerformanceMonitoring() of a demo, at DOMContentLoaded: the panel is
\* shown, the automatic start and the refresh of the panel are scheduled.
PageLoad ==
    /\ job = 0
    /\ ~ui.shown
    /\ ui' = [ui EXCEPT !.shown = TRUE]
    /\ timers' = timers \cup
           {NewTimer(nextTimerId, Cb("autoStart"), AutoStartDelay, 0),
            NewTimer(nextTimerId + 1, Cb("refreshPanel"), RefreshPeriod, RefreshPeriod)}
    /\ nextTimerId' = nextTimerId + 2
    /\ last' = Op("load")
    /\ UNCHANGED <<monitorVars, now, horizon, rafQueue, hasMemory, panel, dom, pushed,
                   afterStop, tally, call, runVars, auxVars>>
    /\ UNCHANGED pathCtl

\* The timeout of initPerformanceMonitoring: performanceMonitor.startMonitoring().
AutoStart(tm) ==
    /\ TimerReady(tm)
    /\ tm.cb.fn = "autoStart"
    /\ LET t == TimerFireTime(tm)
       IN  /\ now' = t
           /\ IF isMonitoring
              THEN /\ timers' = timers \ {tm}
                   /\ UNCHANGED <<monitorVars, nextTimerId, rafQueue, afterStop, sinceTick>>
              ELSE /\ isMonitoring' = TRUE
                   /\ sinceTick' = [time |-> t, frames |-> 0]
                   /\ metrics' = [metrics EXCEPT !.startTime = t]
                   /\ fpsInterval' = nextTimerId
                   /\ memoryInterval' = nextTimerId + 1
                   /\ timers' = (timers \ {tm}) \cup
                          {NewTimerAt(t, nextTimerId, Cb("updateFPS"), FpsPeriod, FpsPeriod),
                           NewTimerAt(t, nextTimerId + 1, Cb("updateMemory"),
                                      MemoryPeriod, MemoryPeriod)}
                   /\ nextTimerId' = nextTimerId + 2
                   /\ rafQueue' = MeasureFrameTime(rafQueue, TRUE, t)
                   /\ afterStop' = 0
                   /\ UNCHANGED <<frameCount, lastTime>>
    /\ last' = Op("startMonitoring")
    /\ UNCHANGED <<horizon, hasMemory, panel, dom, pushed, tally, call, runVars, exported, ui, pathCtl>>

\* The interval of initPerformanceMonitoring: the panel shows the summary.
RefreshPanel(tm) ==
    /\ TimerReady(tm)
    /\ tm.cb.fn = "refreshPanel"
    /\ LET t == TimerFireTime(tm)
           summary == GetPerformanceSummary(metrics, t)
       IN  /\ now' = t
           /\ timers' = Rearm(timers, tm, t)
           /\ dom' = [dom EXCEPT
                         !.fps = IF summary.averageFPS = 0
                                 THEN [text |-> Dash, color |-> "#9ca3af"]
                                 ELSE [text |-> Num(summary.averageFPS),
                                       color |-> GetFPSColor(summary.averageFPS)],
                         !.memory.text = IF summary.currentMemory = <<>> THEN Dash
                                         ELSE Num(summary.currentMemory[1].used)]
           /\ ui' = [ui EXCEPT
                        !.frameTime = IF summary.averageFrameTime = 0 THEN Dash
                                      ELSE Num(summary.averageFrameTime),
                        !.animationCount = summary.animationCount]
    /\ last' = Op("updateMetrics")
    /\ UNCHANGED <<monitorVars, horizon, nextTimerId, rafQueue, hasMemory, panel, pushed,
                   afterStop, tally, call, runVars, auxVars>>
    /\ UNCHANGED pathCtl

\* A click on the Start button.
ClickStart ==
    /\ job = 0
    /\ ui.shown
    /\ ~ui.startDisabled
    /\ ui.clicks < MaxClicks
    /\ startMonitoring
    /\ ui' = [ui EXCEPT !.startDisabled = TRUE, !.stopDisabled = FALSE, !.clicks = @ + 1]
    /\ last' = Op("startClick")
    /\ UNCHANGED <<now, horizon, hasMemory, panel, dom, pushed, tally, call, runVars, exported>>
    /\ UNCHANGED pathCtl

\* A click on the Stop button.
ClickStop ==
    /\ job = 0
    /\ ui.shown
    /\ ~ui.stopDisabled
    /\ ui.clicks < MaxClicks
    /\ stopMonitoring
    /\ ui' = [ui EXCEPT !.startDisabled = FALSE, !.stopDisabled = TRUE, !.clicks = @ + 1]
    /\ last' = Op("stopClick")
    /\ UNCHANGED <<now, horizon, hasMemory, panel, dom, pushed, tally, call, runVars, auxVars>>
    /\ UNCHANGED pathCtl

\* A click on the Reset button: the handler calls performanceMonitor.resetMetrics()
\* and then shows '--' and 0; calling what is no method throws a TypeError, which
\* ends the handler.
ClickReset ==
    /\ job = 0
    /\ ui.shown
    /\ ui.clicks < MaxClicks
    /\ IF "resetMetrics" \in MonitorMethods
       THEN /\ metrics' = NewMetrics(now)
            /\ frameCount' = 0
            /\ lastTime' = now
            /\ pushed' = NoPushes
            /\ exported' = HoldsOldObject(exported, metrics)
            /\ sinceTick' = [time |-> now, frames |-> 0]
            /\ dom' = [dom EXCEPT !.fps = [text |-> Dash, color |-> "#9ca3af"],
                                  !.memory.text = Dash]
            /\ ui' = [ui EXCEPT !.frameTime = Dash, !.animationCount = 0, !.clicks = @ + 1]
       ELSE /\ ui' = [ui EXCEPT !.uncaught = @ + 1, !.clicks = @ + 1]
            /\ UNCHANGED <<metrics, frameCount, lastTime, pushed, exported, sinceTick, dom>>
    /\ last' = Op("resetClick")
    /\ UNCHANGED <<isMonitoring, fpsInterval, memoryInterval, now, horizon, timers,
                   nextTimerId, rafQueue, hasMemory, panel, afterStop, tally, call, runVars>>
    /\ UNCHANGED pathCtl

\* A click on the Run Tests button that leaves the button enabled.
ClickRunTestsKeepsButton(r) ==
    /\ ui.shown
    /\ ~ui.runDisabled
    /\ runAllTests(r)
    /\ ui' = [ui EXCEPT !.awaiting = @ \cup {r}]
    /\ UNCHANGED pathCtl

\* A click on the Run Tests button, up to the await of runAllTests().
ClickRunTests(r) ==
    /\ ui.shown
    /\ ~ui.runDisabled
    /\ runAllTests(r)
    /\ ui' = [ui EXCEPT !.runDisabled = TRUE, !.runText = "Testing...",
                        !.awaiting = @ \cup {r}]
    /\ UNCHANGED pathCtl

----------------------------------------------------------------------------
(* The path controller of the vanilla demo *)

DotsForwardDelay == 1500
DotsReverseDelay == 500
DotStep == 300
RestartDelay == 100

\* The path section of the vanilla demo: the drawn path and its dots.
VanillaPage ==
    [height |-> 300, decorative |-> 0, path |-> <<"vanilla-version", "index.html">>,
     nodes |-> { Node(1, "svg", Body, {"path-svg"}, FALSE, FALSE),
                 Node(2, "path", 1, {"draw-path"}, FALSE, TRUE),
                 Node(3, "circle", 1, {"path-dot"}, FALSE, FALSE),
                 Node(4, "circle", 1, {"path-dot"}, FALSE, FALSE) }]

\* document.querySelector('.draw-path'), document.querySelectorAll('.path-dot')
DrawPath(N) ==
    LET found == QuerySelectorAll(N, { n \in N : "draw-path" \in n.classes })
    IN  IF found = <<>> THEN <<>> ELSE <<found[1]>>

PathDots(N) == QuerySelectorAll(N, { n \in N : "path-dot" \in n.classes })

SeqRange(q) == { q[k] : k \in 1..Len(q) }

\* classList.add and classList.remove on the elements ids
ClassesAdded(N, ids, cls) ==
    { IF n.id \in ids THEN [n EXCEPT !.classes = n.classes \cup cls] ELSE n : n \in N }

ClassesRemoved(N, ids, cls) ==
    { IF n.id \in ids THEN [n EXCEPT !.classes = n.classes \ cls] ELSE n : n \in N }

\* The classes of the drawn path that belong to the controller.
PathClasses(N) == NodeOf(N, DrawPath(N)[1]).classes \cap {"animate", "animate-reverse"}

PathTimer(id, fn, counted, idx, el, delay) ==
    NewTimer(id, Callback(fn, counted, idx, el), delay, 0)

\* The callback of the intersection observer for an entry that intersects
\* (for any other entry, and in any state but 'stopped', it does nothing).
PathIntersects ==
    /\ job = 0
    /\ DrawPath(nodes) # <<>>
    /\ pathCtl.state = "stopped"
    /\ nodes' = ClassesAdded(nodes, {DrawPath(nodes)[1]}, {"animate"})
    /\ pathCtl' = [pathCtl EXCEPT !.state = "forward"]
    /\ metrics' = [metrics EXCEPT !.animationCount = metrics.animationCount + 1]
    /\ tally' = TallyInc(tally)
    /\ timers' = timers \cup {PathTimer(nextTimerId, "dotsForward", 1, 0, 0, DotsForwardDelay)}
    /\ nextTimerId' = nextTimerId + 1
    /\ last' = Op("intersection")
    /\ UNCHANGED <<isMonitoring, fpsInterval, memoryInterval, frameCount, lastTime, now,
                   horizon, rafQueue, hasMemory, panel, dom, pushed, afterStop, call, page,
                   nextNodeId, scroll, runs, testResults, job, auxVars, ui>>

\* A click on Play.
PlayPath ==
    /\ job = 0
    /\ DrawPath(nodes) # <<>>
    /\ pathCtl.clicks < MaxClicks
    /\ nodes' = ClassesAdded(
                    ClassesRemoved(ClassesRemoved(nodes, {DrawPath(nodes)[1]},
                                                  {"animate", "animate-reverse"}),
                                   SeqRange(PathDots(nodes)), {"animate"}),
                    {DrawPath(nodes)[1]}, {"animate"})
    /\ pathCtl' = [pathCtl EXCEPT !.state = "forward", !.dashoffset = "pathLength",
                                  !.clicks = @ + 1]
    /\ timers' = timers \cup {PathTimer(nextTimerId, "dotsForward", 0, 0, 0, DotsForwardDelay)}
    /\ nextTimerId' = nextTimerId + 1
    /\ last' = Op("playPath")
    /\ UNCHANGED <<monitorVars, now, horizon, rafQueue, hasMemory, panel, dom, pushed,
                   afterStop, tally, call, page, nextNodeId, scroll, runs, testResults, job,
                   auxVars, ui>>

\* A click on Reverse.
ReversePath ==
    /\ job = 0
    /\ DrawPath(nodes) # <<>>
    /\ pathCtl.clicks < MaxClicks
    /\ nodes' = ClassesAdded(
                    ClassesAdded(
                       ClassesRemoved(ClassesRemoved(nodes, {DrawPath(nodes)[1]},
                                                     {"animate", "animate-reverse"}),
                                      SeqRange(PathDots(nodes)), {"animate"}),
                       {DrawPath(nodes)[1]}, {"animate-reverse"}),
                    SeqRange(PathDots(nodes)), {"animate"})
    /\ pathCtl' = [pathCtl EXCEPT !.state = "reverse", !.dashoffset = "0", !.delay = "0s",
                                  !.clicks = @ + 1]
    /\ timers' = timers \cup {PathTimer(nextTimerId, "dotsReverse", 0, 0, 0, DotsReverseDelay)}
    /\ nextTimerId' = nextTimerId + 1
    /\ last' = Op("reversePath")
    /\ UNCHANGED <<monitorVars, now, horizon, rafQueue, hasMemory, panel, dom, pushed,
                   afterStop, tally, call, page, nextNodeId, scroll, runs, testResults, job,
                   auxVars, ui>>

\* A click on Restart, up to its timeout.
RestartPath ==
    /\ job = 0
    /\ DrawPath(nodes) # <<>>
    /\ pathCtl.clicks < MaxClicks
    /\ nodes' = ClassesRemoved(ClassesRemoved(nodes, {DrawPath(nodes)[1]},
                                              {"animate", "animate-reverse"}),
                               SeqRange(PathDots(nodes)), {"animate"})
    /\ pathCtl' = [pathCtl EXCEPT !.state = "stopped", !.dashoffset = "pathLength",
                                  !.clicks = @ + 1]
    /\ timers' = timers \cup {PathTimer(nextTimerId, "restartPath", 0, 0, 0, RestartDelay)}
    /\ nextTimerId' = nextTimerId + 1
    /\ last' = Op("restartPath")
    /\ UNCHANGED <<monitorVars, now, horizon, rafQueue, hasMemory, panel, dom, pushed,
                   afterStop, tally, call, page, nextNodeId, scroll, runs, testResults, job,
                   auxVars, ui>>

\* The timeout of Restart: the path gets 'animate', the state becomes 'forward'.
RestartTimeout(tm) ==
    /\ TimerReady(tm)
    /\ tm.cb.fn = "restartPath"
    /\ now' = TimerFireTime(tm)
    /\ nodes' = ClassesAdded(nodes, {DrawPath(nodes)[1]}, {"animate"})
    /\ pathCtl' = [pathCtl EXCEPT !.state = "forward"]
    /\ timers' = (timers \ {tm})
                    \cup {PathTimer(nextTimerId, "dotsForward", 0, 0, 0,
                                    TimerFireTime(tm) - now + DotsForwardDelay)}
    /\ nextTimerId' = nextTimerId + 1
    /\ last' = Op("restartPath")
    /\ UNCHANGED <<monitorVars, horizon, rafQueue, hasMemory, panel, dom, pushed,
                   afterStop, tally, call, page, nextNodeId, scroll, runs, testResults, job,
                   auxVars, ui>>

\* The timeout that schedules the dots of a forward animation, the dot with
\* index i after i * 300 ms.
DotsForward(tm) ==
    /\ TimerReady(tm)
    /\ tm.cb.fn = "dotsForward"
    /\ LET t == TimerFireTime(tm)
           dots == PathDots(nodes)
       IN  /\ now' = t
           /\ timers' = (timers \ {tm}) \cup
                  { PathTimer(nextTimerId + k - 1, "dotShow", tm.cb.run, k - 1, dots[k],
                              t - now + (k - 1) * DotStep) : k \in 1..Len(dots) }
           /\ nextTimerId' = nextTimerId + Len(dots)
    /\ pathCtl' = [pathCtl EXCEPT !.delay = "css"]
    /\ last' = Op("dotsForward")
    /\ UNCHANGED <<monitorVars, horizon, rafQueue, hasMemory, panel, dom, pushed,
                   afterStop, tally, call, runVars, auxVars, ui>>

\* The timeout of one dot of a forward animation; the observer's dots are counted.
DotShow(tm) ==
    /\ TimerReady(tm)
    /\ tm.cb.fn = "dotShow"
    /\ now' = TimerFireTime(tm)
    /\ nodes' = ClassesAdded(nodes, {tm.cb.el}, {"animate"})
    /\ metrics' = IF tm.cb.run = 1
                  THEN [metrics EXCEPT !.animationCount = metrics.animationCount + 1]
                  ELSE metrics
    /\ tally' = IF tm.cb.run = 1 THEN TallyInc(tally) ELSE tally
    /\ timers' = timers \ {tm}
    /\ last' = Op("dotShow")
    /\ UNCHANGED <<isMonitoring, fpsInterval, memoryInterval, frameCount, lastTime,
                   horizon, nextTimerId, rafQueue, hasMemory, panel, dom, pushed, afterStop,
                   call, page, nextNodeId, scroll, runs, testResults, job, auxVars, ui,
                   pathCtl>>

\* The timeout that schedules the dots of a reverse animation, the last dot first.
DotsReverse(tm) ==
    /\ TimerReady(tm)
    /\ tm.cb.fn = "dotsReverse"
    /\ LET t == TimerFireTime(tm)
           dots == PathDots(nodes)
       IN  /\ now' = t
           /\ timers' = (timers \ {tm}) \cup
                  { PathTimer(nextTimerId + k - 1, "dotHide", 0, k - 1, dots[k],
                              t - now + (Len(dots) - k) * DotStep) : k \in 1..Len(dots) }
           /\ nextTimerId' = nextTimerId + Len(dots)
    /\ last' = Op("dotsReverse")
    /\ UNCHANGED <<monitorVars, horizon, rafQueue, hasMemory, panel, dom, pushed,
                   afterStop, tally, call, runVars, auxVars, ui, pathCtl>>

\* The timeout of one dot of a reverse animation.
DotHide(tm) ==
    /\ TimerReady(tm)
    /\ tm.cb.fn = "dotHide"
    /\ now' = TimerFireTime(tm)
    /\ nodes' = ClassesRemoved(nodes, {tm.cb.el}, {"animate"})
    /\ timers' = timers \ {tm}
    /\ last' = Op("dotHide")
    /\ UNCHANGED <<monitorVars, horizon, nextTimerId, rafQueue, hasMemory, panel, dom,
                   pushed, afterStop, tally, call, page, nextNodeId, scroll, runs,
                   testResults, job, auxVars, ui, pathCtl>>

----------------------------------------------------------------------------
(* Specifications *)

\* The state the constructor leaves, on a host observed up to instant h.
Constructed(h, p) ==
    /\ page = p
    /\ nodes = p.nodes
    /\ nextNodeId = FirstFreeId(p.nodes)
    /\ scroll = <<>>
    /\ runs = [r \in 1..MaxRuns |-> IdleRun]
    /\ testResults = <<>>
    /\ job = 0
    /\ now = 0
    /\ horizon = h
    /\ timers = {}
    /\ nextTimerId = 1
    /\ rafQueue = <<>>
    /\ dom = InitialDom
    /\ metrics = NewMetrics(0)
    /\ isMonitoring = FALSE
    /\ fpsInterval = Null
    /\ memoryInterval = Null
    /\ frameCount = 0
    /\ lastTime = 0
    /\ pushed = NoPushes
    /\ last = [op |-> "constructor", wasMonitoring |-> FALSE, hadData |-> FALSE]
    /\ afterStop = 0
    /\ exported = NoExport
    /\ sinceTick = [time |-> 0, frames |-> 0]
    /\ ui = PanelCreated
    /\ pathCtl = PathInitial

Init ==
    /\ Constructed(MaxTime, BarePage)
    /\ call = NoCall
    /\ tally = TallyOff
    /\ hasMemory \in BOOLEAN
    /\ panel \in BOOLEAN

\* Every interleaving of calls and host callbacks, over a short horizon.
Next ==
    \/ StartMonitoring
    \/ StopMonitoring
    \/ \E tm \in timers : UpdateFPS(tm)
    \/ \E tm \in timers : \E heap \in HeapReadings : UpdateMemory(tm, heap)
    \/ FrameCallback
    \/ IncrementAnimationCount
    \/ DecrementAnimationCount
    \/ Reset

Spec == Init /\ [][Next]_vars

InitWin ==
    /\ Constructed(WinTime, BarePage)
    /\ call = NoCall
    /\ tally = TallyOff
    /\ hasMemory = TRUE
    /\ panel = TRUE

\* A sampler left running for a minute, reset at any instant.
NextWin ==
    \/ StartMonitoring
    \/ \E tm \in timers : UpdateFPS(tm)
    \/ \E tm \in timers : UpdateMemory(tm, NominalHeap)
    \/ FrameCallback
    \/ Reset

SpecWin == InitWin /\ [][NextWin]_vars

InitCount ==
    /\ Constructed(MaxTime, BarePage)
    /\ call = NoCall
    /\ tally = NoTally
    /\ hasMemory \in BOOLEAN
    /\ panel \in BOOLEAN

\* Calls of the counter operations, of reset and of start and stop, in any order.
NextCount ==
    \/ IncrementAnimationCount
    \/ DecrementAnimationCount
    \/ Reset
    \/ StartMonitoring
    \/ StopMonitoring

SpecCount == InitCount /\ [][NextCount]_vars

InitExport ==
    /\ Constructed(MaxTime, BarePage)
    /\ call = NoCall
    /\ tally = TallyOff
    /\ hasMemory = TRUE
    /\ panel = TRUE

\* A sampler whose data is exported at some instant and which is used further.
NextExport ==
    \/ StartMonitoring
    \/ ExportData
    \/ \E tm \in timers : UpdateFPS(tm)
    \/ \E tm \in timers : UpdateMemory(tm, NominalHeap)
    \/ FrameCallback
    \/ IncrementAnimationCount
    \/ Reset

SpecExport == InitExport /\ [][NextExport]_vars

InitRun ==
    /\ \E p \in Pages : Constructed(RunTime, p)
    /\ call = NoCall
    /\ tally = TallyOff
    /\ hasMemory = TRUE
    /\ panel = TRUE

\* Invocations of runAllTests, overlapping or not, on a host that runs the
\* timers and the frame callbacks on time.
NextRun ==
    \/ \E r \in 1..MaxRuns : RunAllTests(r)
    \/ \E r \in 1..MaxRuns : TestScrollStart(r)
    \/ \E tm \in timers : ScrollStep(tm)
    \/ \E tm \in timers : ScrollFinish(tm)
    \/ \E r \in 1..MaxRuns : TestStaggerStart(r)
    \/ \E tm \in timers : Reveal(tm)
    \/ \E tm \in timers : StaggerFinish(tm)
    \/ \E r \in 1..MaxRuns : TestSVGStart(r)
    \/ \E tm \in timers : SvgAnimate(tm)
    \/ \E tm \in timers : SvgFinish(tm)
    \/ \E r \in 1..MaxRuns : RunAllTestsFinish(r)
    \/ \E tm \in timers : UpdateFPS(tm)
    \/ \E tm \in timers : UpdateMemory(tm, NominalHeap)
    \/ FrameCallback

SpecRun == InitRun /\ [][NextRun]_vars

InitOwn ==
    /\ \E p \in OwnPages : Constructed(RunTime, p)
    /\ call = NoCall
    /\ tally = TallyOff
    /\ hasMemory = TRUE
    /\ panel = TRUE

\* The same invocations on the pages that hold an off-screen element of their own.
SpecOwn == InitOwn /\ [][NextRun]_vars

\* Invocations one after another as well as overlapping: the window is long
\* enough for an invocation that starts after an earlier one has returned.
InitSeq ==
    /\ Constructed(SeqTime, CardPage)
    /\ call = NoCall
    /\ tally = TallyOff
    /\ hasMemory = TRUE
    /\ panel = TRUE

SpecSeq == InitSeq /\ [][NextRun]_vars

InitPath ==
    /\ Constructed(PathTime, VanillaPage)
    /\ call = NoCall
    /\ tally = TallyOff
    /\ hasMemory = TRUE
    /\ panel = TRUE

\* The path section of the vanilla demo: it scrolls into view, the user clicks
\* Play, Reverse and Restart, the timeouts fire.
NextPath ==
    \/ PathIntersects
    \/ PlayPath
    \/ ReversePath
    \/ RestartPath
    \/ \E tm \in timers : RestartTimeout(tm)
    \/ \E tm \in timers : DotsForward(tm)
    \/ \E tm \in timers : DotShow(tm)
    \/ \E tm \in timers : DotsReverse(tm)
    \/ \E tm \in timers : DotHide(tm)

SpecPath == InitPath /\ [][NextPath]_vars

\* What the host and the event loop do on their own: timer callbacks, frame
\* callbacks and the continuation of an invocation whose wait is over.
Deliver ==
    \/ \E r \in 1..MaxRuns : TestScrollStart(r)
    \/ \E tm \in timers : ScrollStep(tm)
    \/ \E tm \in timers : ScrollFinish(tm)
    \/ \E r \in 1..MaxRuns : TestStaggerStart(r)
    \/ \E tm \in timers : Reveal(tm)
    \/ \E tm \in timers : StaggerFinish(tm)
    \/ \E r \in 1..MaxRuns : TestSVGStart(r)
    \/ \E tm \in timers : SvgAnimate(tm)
    \/ \E tm \in timers : SvgFinish(tm)
    \/ \E r \in 1..MaxRuns : RunAllTestsFinish(r)
    \/ \E tm \in timers : UpdateFPS(tm)
    \/ \E tm \in timers : UpdateMemory(tm, NominalHeap)
    \/ FrameCallback

InitPanel ==
    /\ \E p \in PanelPages : Constructed(PanelTime, p)
    /\ call = NoCall
    /\ tally = TallyOff
    /\ hasMemory = TRUE
    /\ panel = TRUE

\* A demo page with its panel: the page loads, the user clicks Start, Stop and Reset.
NextPanel ==
    \/ PageLoad
    \/ \E tm \in timers : AutoStart(tm)
    \/ \E tm \in timers : RefreshPanel(tm)
    \/ ClickStart
    \/ ClickStop
    \/ ClickReset
    \/ \E tm \in timers : UpdateFPS(tm)
    \/ \E tm \in timers : UpdateMemory(tm, NominalHeap)
    \/ FrameCallback

SpecPanel == InitPanel /\ [][NextPanel]_vars

InitPanelRun ==
    /\ \E p \in PanelPages : Constructed(RunTime, p)
    /\ call = NoCall
    /\ tally = TallyOff
    /\ hasMemory = TRUE
    /\ panel = TRUE

\* A demo page with its panel: the page loads, the user clicks Run Tests.
NextPanelRun ==
    \/ PageLoad
    \/ \E tm \in timers : AutoStart(tm)
    \/ \E tm \in timers : RefreshPanel(tm)
    \/ \E r \in 1..MaxRuns : ClickRunTests(r)
    \/ Deliver

SpecPanelRun == InitPanelRun /\ [][NextPanelRun]_vars

InitStagger ==
    /\ \E p \in StaggerPages : Constructed(RunTime, p)
    /\ call = NoCall
    /\ tally = TallyOff
    /\ hasMemory = TRUE
    /\ panel = TRUE

\* One invocation of runAllTests, on pages with and without targets for the staggered reveal.
NextStagger ==
    \/ RunAllTests(1)
    \/ Deliver

SpecStagger == InitStagger /\ [][NextStagger]_vars

InitFair ==
    /\ \E p \in Pages \cup OwnPages : Constructed(MaxRuns * RunTime, p)
    /\ call = NoCall
    /\ tally = TallyOff
    /\ hasMemory = TRUE
    /\ panel = TRUE

\* Invocations of runAllTests on a host that delivers every callback that is due.
SpecRunFair == InitFair /\ [][NextRun]_vars /\ WF_vars(Deliver)

InitGrade ==
    /\ Constructed(MaxTime, BarePage)
    /\ tally = TallyOff
    /\ hasMemory = TRUE
    /\ panel = TRUE
    /\ \E avgFPS \in 0..MaxFps : \E avgFrameTime \in 0..MaxFrameMs :
           call = [fn |-> "pending", avgFPS |-> avgFPS, avgFrameTime |-> avgFrameTime,
                   result |-> "none"]

\* getPerformanceGrade applied to every pair of averages within the bounds.
NextGrade == CallGetPerformanceGrade

SpecGrade == InitGrade /\ [][NextGrade]_vars

----------------------------------------------------------------------------
(* Properties *)

WindowsEmpty ==
    metrics.fps = <<>> /\ metrics.memory = <<>> /\ metrics.frameTime = <<>>

IntervalsOf(fn) == { t \in timers : t.cb.fn = fn }

\* The grading policy as the specification tabulates it, first match wins.
GradingPolicy ==
    << [grade |-> "A", minFps |-> 55, maxFrameTime |-> 16],
       [grade |-> "B", minFps |-> 45, maxFrameTime |-> 22],
       [grade |-> "C", minFps |-> 30, maxFrameTime |-> 33] >>

PolicyGrade(avgFPS, avgFrameTime) ==
    LET rows == { i \in 1..Len(GradingPolicy) :
                    /\ avgFPS >= GradingPolicy[i].minFps
                    /\ avgFrameTime <= GradingPolicy[i].maxFrameTime }
    IN  IF rows = {} THEN "D" ELSE GradingPolicy[MinOf(rows)].grade

\* a is the integer nearest to total / n, halves upwards.
NearestToMean(a, total, n) ==
    2 * a * n - n <= 2 * total /\ 2 * total < 2 * a * n + n

\* C1: no window ever holds more than its capacity (60 FPS samples, 30 memory
\* samples, 120 frame times), and each window is, in push order, the last
\* min(n, K) samples pushed into it since the last reset.
C1_WindowsHoldMostRecent ==
    /\ Len(metrics.fps) <= FpsWindow
    /\ Len(metrics.memory) <= MemoryWindow
    /\ Len(metrics.frameTime) <= FrameTimeWindow
    /\ metrics.fps = LastK(pushed.fps, FpsWindow)
    /\ metrics.memory = LastK(pushed.memory, MemoryWindow)
    /\ metrics.frameTime = LastK(pushed.frameTime, FrameTimeWindow)

\* All three windows have evicted samples, and the frame times differ from one another.
C1_Witness ==
    /\ Len(pushed.fps) > FpsWindow
    /\ Len(pushed.memory) > MemoryWindow
    /\ Len(pushed.frameTime) > FrameTimeWindow
    /\ \E i \in 1..Len(metrics.frameTime) : metrics.frameTime[i] # metrics.frameTime[1]

\* C2: startMonitoring on a running sampler changes nothing (flag, start
\* timestamp, interval handles, timer table, armed frame callbacks), and there is
\* never more than one FPS interval or more than one memory interval.
C2_StartWhileRunningIsNoOp ==
    /\ [](/\ Cardinality(IntervalsOf("updateFPS")) <= 1
          /\ Cardinality(IntervalsOf("updateMemory")) <= 1)
    /\ [][(last'.op = "startMonitoring" /\ isMonitoring)
            => UNCHANGED <<monitorVars, timers, nextTimerId, rafQueue>>]_vars

\* startMonitoring has just been called on a sampler that was running and had sampled.
C2_Witness ==
    /\ last.op = "startMonitoring"
    /\ last.wasMonitoring
    /\ isMonitoring
    /\ metrics.fps # <<>>
    /\ Len(rafQueue) = 1

\* C3: stopMonitoring on a stopped sampler changes nothing; on a running one it
\* leaves no FPS interval and no memory interval armed; and no step taken while
\* the sampler is stopped appends an FPS sample or a memory sample.
C3_StopCancelsIntervals ==
    [][/\ (last'.op = "stopMonitoring" /\ ~isMonitoring)
            => UNCHANGED <<monitorVars, timers, nextTimerId, rafQueue>>
       /\ (last'.op = "stopMonitoring" /\ isMonitoring)
            => /\ ~isMonitoring'
               /\ IntervalsOf("updateFPS")' = {}
               /\ IntervalsOf("updateMemory")' = {}
       /\ ~isMonitoring
            => /\ Len(pushed'.fps) <= Len(pushed.fps)
               /\ Len(pushed'.memory) <= Len(pushed.memory)]_vars

\* A host callback has run after a sampler that had sampled was stopped.
C3_Witness ==
    /\ ~isMonitoring
    /\ last.op = "frame"
    /\ ~last.wasMonitoring
    /\ metrics.fps # <<>>

\* C4 (as claimed): once the sampler is stopped and not started again, at most
\* one further frame-time sample is recorded, whatever starts and stops came before.
C4_AtMostOneSampleAfterStop == afterStop <= 1

\* C5: the animation counter is never negative, a decrement at zero leaves it
\* at zero, and N increments followed by M decrements from zero leave max(N - M, 0).
C5_CounterFloorsAtZero ==
    /\ [](/\ metrics.animationCount >= 0
          /\ tally.order \in {"incs", "decs"}
               => metrics.animationCount = Max(tally.incs - tally.decs, 0))
    /\ [][(last'.op = "decrementAnimationCount" /\ metrics.animationCount = 0)
            => metrics'.animationCount = 0]_vars

\* Some increments were followed by more decrements than that.
C5_Witness ==
    /\ tally.order = "decs"
    /\ tally.incs > 0
    /\ tally.decs > tally.incs
    /\ last.op = "decrementAnimationCount"

\* C6: getPerformanceGrade returns the first matching row of the policy, hence
\* one of A, B, C, D, and for a frame time <= 16 the grade is D below 30 fps,
\* C from 30, B from 45 and A from 55.
C6_GradeIsFirstMatch ==
    call.fn = "getPerformanceGrade" =>
        /\ call.result = PolicyGrade(call.avgFPS, call.avgFrameTime)
        /\ call.result \in {"A", "B", "C", "D"}
        /\ call.avgFrameTime <= 16 =>
             call.result = IF call.avgFPS < 30 THEN "D"
                           ELSE IF call.avgFPS < 45 THEN "C"
                           ELSE IF call.avgFPS < 55 THEN "B"
                           ELSE "A"

\* The call at the boundary: 54 fps at 16 ms is graded B.
C6_Witness ==
    /\ call.fn = "getPerformanceGrade"
    /\ call.avgFPS = 54
    /\ call.avgFrameTime = 16
    /\ call.result = "B"

\* C7: with the three windows empty, getPerformanceSummary gives averageFPS 0,
\* averageFrameTime 0, no current memory sample and grade D.
C7_EmptySummary ==
    WindowsEmpty =>
        LET s == GetPerformanceSummary(metrics, now)
        IN  /\ s.averageFPS = 0
            /\ s.averageFrameTime = 0
            /\ s.currentMemory = <<>>
            /\ s.performance.grade = "D"

\* The windows of a running sampler are empty, after a reset at a later instant.
C7_Witness ==
    /\ WindowsEmpty
    /\ isMonitoring
    /\ now > 0
    /\ last.op = "reset"

\* C8 (as claimed): the two averages of the summary are the arithmetic means of
\* their windows.
C8_AveragesAreExactMeans ==
    LET s == GetPerformanceSummary(metrics, now)
    IN  /\ s.averageFPS * Len(metrics.fps) = Sum(metrics.fps)
        /\ s.averageFrameTime * Len(metrics.frameTime) = Sum(metrics.frameTime)

\* C8 (amended): each average is the integer nearest to the arithmetic mean of
\* its window (0 for an empty window), the grade is the policy applied to these
\* two integers, and currentMemory is the memory sample pushed last.
C8_AveragesAreRoundedMeans ==
    LET s == GetPerformanceSummary(metrics, now)
    IN  /\ IF metrics.fps = <<>> THEN s.averageFPS = 0
           ELSE NearestToMean(s.averageFPS, Sum(metrics.fps), Len(metrics.fps))
        /\ IF metrics.frameTime = <<>> THEN s.averageFrameTime = 0
           ELSE NearestToMean(s.averageFrameTime, Sum(metrics.frameTime),
                              Len(metrics.frameTime))
        /\ s.performance.grade = PolicyGrade(s.averageFPS, s.averageFrameTime)
        /\ s.currentMemory = IF pushed.memory = <<>> THEN <<>>
                             ELSE <<pushed.memory[Len(pushed.memory)]>>

\* The three windows hold samples and the mean frame time is no whole number.
C8_Witness ==
    /\ metrics.fps # <<>>
    /\ metrics.memory # <<>>
    /\ Len(metrics.frameTime) >= 3
    /\ 2 * (Sum(metrics.frameTime) % Len(metrics.frameTime)) >= Len(metrics.frameTime)

\* The summary of a sampler the constructor has just built.
FreshSummary == GetPerformanceSummary(NewMetrics(0), 0)

\* C9: reset() empties the three windows and zeroes the animation counter, and
\* the summary read right after it is the summary of a fresh sampler: averages 0,
\* no memory sample, counter 0, elapsed 0, grade D.
C9_ResetGivesFreshSummary ==
    [][last'.op = "reset"
         => /\ WindowsEmpty'
            /\ metrics'.animationCount = 0
            /\ GetPerformanceSummary(metrics', now') = FreshSummary
            /\ FreshSummary.averageFPS = 0
            /\ FreshSummary.averageFrameTime = 0
            /\ FreshSummary.currentMemory = <<>>
            /\ FreshSummary.animationCount = 0
            /\ FreshSummary.totalTime = 0
            /\ FreshSummary.performance.grade = "D"]_vars

\* reset() has just run on a running sampler that held samples and a positive counter.
C9_Witness ==
    /\ last.op = "reset"
    /\ last.wasMonitoring
    /\ last.hadData
    /\ now > 0

IsPrefix(s, t) == Len(s) <= Len(t) /\ SubSeq(t, 1, Len(s)) = s

\* The events of one runAllTests invocation, in the order the claim gives.
RunOrder ==
    <<"startMonitoring", "scrollStart", "scrollResult", "staggerStart", "staggerResult",
      "svgStart", "svgResult", "summary", "stopMonitoring", "return">>

Recorded(test) == \E k \in 1..Len(testResults) : testResults[k].test = test

ArmedFor(r, fn) == { t \in timers : t.cb.run = r /\ t.cb.fn = fn }

\* C10: the events of every runAllTests invocation occur in the order
\* startMonitoring, scroll start and result, stagger start and result, SVG start
\* and result, summary read, stopMonitoring, return; a scenario starts only when
\* the previous one has recorded its result and has no callback left armed.
C10_RunAllTestsIsSequential ==
    \A r \in 1..MaxRuns :
        LET log == runs[r].log
            In(e) == \E k \in 1..Len(log) : log[k] = e
        IN  /\ IsPrefix(log, RunOrder)
            /\ In("staggerStart")
                  => /\ Recorded("Scroll Animations")
                     /\ "scrollAnimations" \in DOMAIN runs[r].report
            /\ In("svgStart")
                  => /\ Recorded("Stagger Animations")
                     /\ "staggerAnimations" \in DOMAIN runs[r].report
                     /\ ArmedFor(r, "reveal") = {}
            /\ In("summary")
                  => /\ Recorded("SVG Path Animations")
                     /\ "svgAnimations" \in DOMAIN runs[r].report
                     /\ ArmedFor(r, "animate") = {}
                     /\ ArmedFor(r, "wait") = {}
            /\ In("return") => DOMAIN runs[r].report =
                  {"scrollAnimations", "staggerAnimations", "svgAnimations", "summary"}

\* An invocation has returned its report after running its three scenarios,
\* and a second invocation was made while it ran.
C10_Witness ==
    /\ runs[1].pc = "done"
    /\ runs[1].log = RunOrder
    /\ Len(testResults) >= 3
    /\ runs[2].pc # "idle"

\* The elements in the document, and those among them that a scenario created.
Document(N) == { n.id : n \in { m \in N : InDocument(N, m) } }

Synthesized(N) == { n \in N : n.id >= FirstFreeId(page.nodes) /\ InDocument(N, n) }

NoTargets == StaggerElements(page.nodes, 1) = <<>> /\ SvgElements(page.nodes, 1) = <<>>

Quiescent == \A r \in 1..MaxRuns : ~InFlight(r)

\* C12 (as claimed): on a page where no stagger selector and no SVG selector
\* matches, an invocation that runs alone synthesizes one off-screen container
\* with 20 placeholders and later one off-screen svg with one path, nothing
\* synthesized is in the document once the scenario has recorded its result, and
\* after the invocations have returned the document holds exactly the elements
\* of the page.
C12_SynthesizedNodesAreRemoved ==
    NoTargets =>
        /\ \A r \in 1..MaxRuns :
              runs[r].alone =>
                 /\ runs[r].pc = "staggerWait" =>
                       /\ Len(runs[r].elements) = SynthCount
                       /\ \E c \in Synthesized(nodes) :
                             /\ c.tag = "div" /\ c.offscreen /\ c.parent = Body
                             /\ \A k \in 1..SynthCount :
                                   NodeOf(nodes, runs[r].elements[k]).parent = c.id
                       /\ Cardinality(Synthesized(nodes)) = SynthCount + 1
                 /\ runs[r].pc = "svgWait" =>
                       /\ Len(runs[r].elements) = 1
                       /\ \E c \in Synthesized(nodes) :
                             /\ c.tag = "svg" /\ c.offscreen /\ c.parent = Body
                             /\ NodeOf(nodes, runs[r].elements[1]).parent = c.id
                             /\ NodeOf(nodes, runs[r].elements[1]).tag = "path"
                       /\ Cardinality(Synthesized(nodes)) = 2
                 /\ runs[r].pc \in {"svgStart", "summary", "done"} =>
                       Synthesized(nodes) = {}
        /\ (Quiescent /\ \E r \in 1..MaxRuns : runs[r].pc = "done")
              => Document(nodes) = Document(page.nodes)

\* The tier the claim gives a page: heavy when more than 10 decorative elements
\* match or the location path holds the directory of a demo.
HeavyTier ==
    \/ page.decorative > 10
    \/ \E i \in 1..Len(page.path) : page.path[i] = "gsap-version"
    \/ \E i \in 1..Len(page.path) : page.path[i] = "vanilla-version"

TierDelay(heavyMs, lightMs) == IF HeavyTier THEN heavyMs ELSE lightMs

\* C13: every scenario paces itself by the tier of the page: scroll step delay
\* 300 ms, stagger delay 120 ms and SVG delay 300 ms on a heavy or demo page,
\* 150 ms, 80 ms and 200 ms on every other page, in the scenario's run and in
\* the result it records.
C13_PacingFollowsTier ==
    /\ \A r \in 1..MaxRuns :
          /\ runs[r].pc \in {"scrollLoop", "scrollBack"} => runs[r].delay = TierDelay(300, 150)
          /\ runs[r].pc = "staggerWait" => runs[r].delay = TierDelay(120, 80)
          /\ runs[r].pc = "svgWait" => runs[r].delay = TierDelay(300, 200)
    /\ \A k \in 1..Len(testResults) :
          LET e == testResults[k]
          IN  /\ e.test = "Scroll Animations" => e.details.stepDelay = TierDelay(300, 150)
              /\ e.test = "Stagger Animations" => e.details.staggerDelay = TierDelay(120, 80)
              /\ e.test = "SVG Path Animations" => e.details.animationDelay = TierDelay(300, 200)

\* On a page with exactly 10 decorative elements that is no demo page, the three
\* scenarios have run with the light delays.
C13_Witness ==
    /\ page.decorative = 10
    /\ ~HeavyTier
    /\ Len(testResults) >= 3
    /\ testResults[1].test = "Scroll Animations"
    /\ testResults[1].details.stepDelay = 150
    /\ testResults[2].test = "Stagger Animations"
    /\ testResults[2].details.staggerDelay = 80
    /\ testResults[3].test = "SVG Path Animations"
    /\ testResults[3].details.animationDelay = 200

\* C14: in the stagger scenario with n targets and delay d the reveal of the
\* target at index i is due i*d ms after the scheduling pass, the reveals fire in
\* index order, the scenario's wait is due n*d + 1000 ms after the pass, all n
\* reveals have fired when the result is recorded, and the recorded duration is
\* at least n*d + 1000 ms (at least 3000 ms for 25 targets on a light page).
C14_StaggerSchedule ==
    /\ \A r \in 1..MaxRuns :
          LET n == Len(runs[r].elements)
              d == runs[r].delay
          IN  /\ runs[r].pc = "staggerWait" =>
                    /\ \A tm \in ArmedFor(r, "reveal") :
                          /\ tm.due = runs[r].startTime + (tm.cb.idx - 1) * d
                          /\ tm.cb.el = runs[r].elements[tm.cb.idx]
                          /\ \A k \in (tm.cb.idx + 1)..n :
                                \E um \in ArmedFor(r, "reveal") : um.cb.idx = k
                    /\ \A k \in 1..n :
                          (\A tm \in ArmedFor(r, "reveal") : tm.cb.idx # k)
                             => "animate-in" \in NodeOf(nodes, runs[r].elements[k]).classes
                    /\ \E tm \in ArmedFor(r, "wait") :
                          tm.due = runs[r].startTime + n * d + 1000
              /\ "staggerResult" \in { runs[r].log[k] : k \in 1..Len(runs[r].log) } =>
                    ArmedFor(r, "reveal") = {}
    /\ \A k \in 1..Len(testResults) :
          LET e == testResults[k]
          IN  e.test = "Stagger Animations" =>
                 /\ e.duration >= e.details.elementCount * e.details.staggerDelay + 1000
                 /\ (e.details.elementCount = 25 /\ ~HeavyTier) =>
                        e.details.staggerDelay = 80 /\ e.duration >= 3000

\* The stagger scenario has recorded its result for 25 targets on a light page.
C14_Witness ==
    \E k \in 1..Len(testResults) :
        /\ testResults[k].test = "Stagger Animations"
        /\ testResults[k].details.elementCount = 25
        /\ testResults[k].details.staggerDelay = 80
        /\ testResults[k].duration >= 3000
        /\ \A id \in 1..25 : "animate-in" \in NodeOf(nodes, id).classes

\* document.body.removeChild throws for the element the clean-up of a scenario
\* looks up: there is one, and it is no child of body.
CleanUpThrows(tag) ==
    /\ QueryOffscreen(nodes, tag) # <<>>
    /\ NodeOf(nodes, QueryOffscreen(nodes, tag)[1]).parent # Body

\* C15: when the clean-up of a scenario throws, the invocation fails with it:
\* no result is recorded for the scenario, no later scenario of the invocation
\* is started, no summary is read and no report is returned, now or later.
C15_FailureAbortsTheRun ==
    [][\A r \in 1..MaxRuns :
          /\ (runs[r].pc = "staggerWait" /\ runs'[r].pc # "staggerWait" /\ CleanUpThrows("div"))
                => /\ runs'[r].pc = "failed"
                   /\ testResults' = testResults
                   /\ runs'[r].log = <<"startMonitoring", "scrollStart", "scrollResult",
                                       "staggerStart">>
                   /\ DOMAIN runs'[r].report = {"scrollAnimations"}
                   /\ job' = 0
          /\ (runs[r].pc = "svgWait" /\ runs'[r].pc # "svgWait" /\ CleanUpThrows("svg"))
                => /\ runs'[r].pc = "failed"
                   /\ testResults' = testResults
                   /\ runs'[r].log = <<"startMonitoring", "scrollStart", "scrollResult",
                                       "staggerStart", "staggerResult", "svgStart">>
                   /\ DOMAIN runs'[r].report = {"scrollAnimations", "staggerAnimations"}
                   /\ job' = 0
          /\ runs[r].pc = "failed"
                => /\ runs'[r] = runs[r]
                   /\ ArmedFor(r, "wait")' = {}]_vars

\* An invocation has failed in its stagger scenario, or in its SVG scenario.
C15_Witness ==
    \E r \in 1..MaxRuns :
        /\ runs[r].pc = "failed"
        /\ Len(runs[r].log) \in {4, 6}
        /\ "summary" \notin DOMAIN runs[r].report

\* C16: on a host without performance.memory the memory window stays empty, the
\* summary has no memory sample and the memory text is never written; a memory
\* tick changes nothing but the clock and its own interval, and with or without
\* the API it leaves the FPS window, the frame-time window, the frame counter,
\* the last-tick time, the armed frame callbacks and the FPS interval as they are.
C16_NoMemoryApiIsSilent ==
    [][/\ ~hasMemory'
          => /\ metrics'.memory = <<>>
             /\ GetPerformanceSummary(metrics', now').currentMemory = <<>>
             /\ dom'.memory = InitialDom.memory
       /\ last'.op = "updateMemory"
          => /\ metrics'.fps = metrics.fps
             /\ metrics'.frameTime = metrics.frameTime
             /\ metrics'.animationCount = metrics.animationCount
             /\ <<frameCount, lastTime, rafQueue, isMonitoring>>'
                   = <<frameCount, lastTime, rafQueue, isMonitoring>>
             /\ IntervalsOf("updateFPS")' = IntervalsOf("updateFPS")
             /\ ~hasMemory => metrics' = metrics /\ dom' = dom]_vars

\* A memory tick has run on a host without the API while FPS samples and frame
\* times were being recorded.
C16_Witness ==
    /\ ~hasMemory
    /\ last.op = "updateMemory"
    /\ isMonitoring
    /\ metrics.fps # <<>>
    /\ metrics.frameTime # <<>>
    /\ metrics.memory = <<>>

\* C17 (as claimed): the windows and the counter held by a value exportData()
\* returned equal those of the sampler at the call, whatever happens later.
C17_ExportIsSnapshot ==
    exported.taken =>
        /\ RawData(exported).fps = exported.atCall.fps
        /\ RawData(exported).memory = exported.atCall.memory
        /\ RawData(exported).frameTime = exported.atCall.frameTime
        /\ RawData(exported).animationCount = exported.atCall.animationCount

\* C18 (as claimed): the sample an FPS tick appends is round(1000 * F / D), F the
\* frame callbacks and D the milliseconds since the previous FPS tick, or since
\* the startMonitoring that began the sampling (or the reset) when that is later.
C18_FpsIsFramesOverElapsed ==
    [][last'.op = "updateFPS"
         => pushed'.fps[Len(pushed'.fps)]
               = Round(1000 * sinceTick.frames, now' - sinceTick.time)]_vars

\* The scenario of invocation r that this step finishes, "" when it finishes none.
Finishes(r) ==
    IF runs[r].pc = "scrollBack" /\ runs'[r].pc = "staggerStart" THEN "Scroll Animations"
    ELSE IF runs[r].pc = "staggerWait" /\ runs'[r].pc = "svgStart" THEN "Stagger Animations"
    ELSE IF runs[r].pc = "svgWait" /\ runs'[r].pc = "summary" THEN "SVG Path Animations"
    ELSE ""

\* C19: the results list is append-only: no step removes or rewrites an entry,
\* a scenario that finishes appends exactly one entry, its own, nothing else
\* appends, and an invocation that ran with no other one overlapping has, when
\* it returns, appended exactly three entries, 'Scroll Animations', 'Stagger
\* Animations', 'SVG Path Animations' in this order, after all the entries
\* that were there when it started.
C19_ResultsAppendOnly ==
    [][/\ IsPrefix(testResults, testResults')
       /\ \A r \in 1..MaxRuns :
             Finishes(r) # "" =>
                 /\ Len(testResults') = Len(testResults) + 1
                 /\ testResults'[Len(testResults')].test = Finishes(r)
       /\ testResults' # testResults => \E r \in 1..MaxRuns : Finishes(r) # ""
       /\ \A r \in 1..MaxRuns :
             (runs[r].pc # "done" /\ runs'[r].pc = "done" /\ runs'[r].alone) =>
                 /\ Len(testResults') = runs'[r].base + 3
                 /\ testResults'[runs'[r].base + 1].test = "Scroll Animations"
                 /\ testResults'[runs'[r].base + 2].test = "Stagger Animations"
                 /\ testResults'[runs'[r].base + 3].test = "SVG Path Animations"]_vars

\* An invocation that started after an earlier one had returned, with three
\* entries in the list, has returned with six.
C19_Witness ==
    \E r \in 1..MaxRuns :
        /\ runs[r].pc = "done"
        /\ runs[r].alone
        /\ runs[r].base = 3
        /\ Len(testResults) = 6
        /\ testResults[4].test = "Scroll Animations"
        /\ testResults[6].test = "SVG Path Animations"

\* The delay an entry of the results list records, and the heavy and the light
\* constant of its scenario.
RecordedDelay(e) ==
    IF e.test = "Scroll Animations" THEN e.details.stepDelay
    ELSE IF e.test = "Stagger Animations" THEN e.details.staggerDelay
    ELSE e.details.animationDelay

HeavyDelay(e) ==
    IF e.test = "Scroll Animations" THEN 300
    ELSE IF e.test = "Stagger Animations" THEN 120
    ELSE 300

LightDelay(e) ==
    IF e.test = "Scroll Animations" THEN 150
    ELSE IF e.test = "Stagger Animations" THEN 80
    ELSE 200

\* C20 as stated: in every recorded result details.pageType is 'Heavy' exactly
\* when the recorded delay is the heavy-tier constant and 'Light' exactly when
\* it is the light-tier constant.
C20_PageTypeIsThePacingTier ==
    \A k \in 1..Len(testResults) :
        LET e == testResults[k]
        IN  /\ e.details.pageType = "Heavy" <=> RecordedDelay(e) = HeavyDelay(e)
            /\ e.details.pageType = "Light" <=> RecordedDelay(e) = LightDelay(e)

\* C20: in every recorded result details.pageType is 'Heavy' when more than
\* 10 decorative elements match and 'Light' otherwise, details.isDemoPage tells
\* whether the path is that of a demo, and the recorded delay is the heavy-tier
\* constant exactly when pageType is 'Heavy' or isDemoPage is true, the
\* light-tier constant otherwise.
C20_DetailsAgreeWithPacing ==
    \A k \in 1..Len(testResults) :
        LET e == testResults[k]
        IN  /\ e.details.pageType = (IF page.decorative > 10 THEN "Heavy" ELSE "Light")
            /\ e.details.isDemoPage
                  = (\E i \in 1..Len(page.path) :
                        page.path[i] \in {"gsap-version", "vanilla-version"})
            /\ RecordedDelay(e) = (IF e.details.pageType = "Heavy" \/ e.details.isDemoPage
                                    THEN HeavyDelay(e) ELSE LightDelay(e))

\* The three scenarios have recorded their results on a demo page with 10
\* decorative elements: page type 'Light', the heavy-tier delays.
C20_Witness ==
    /\ Len(testResults) >= 3
    /\ \A k \in 1..3 :
          /\ testResults[k].test = <<"Scroll Animations", "Stagger Animations", "SVG Path Animations">>[k]
          /\ testResults[k].details.pageType = "Light"
          /\ testResults[k].details.isDemoPage
          /\ RecordedDelay(testResults[k]) = HeavyDelay(testResults[k])

\* The number of steps the claim gives a page: ceil(H/200) on a heavy or demo
\* page, ceil(H/100) on every other page.
SweepSteps ==
    IF HeavyTier THEN (page.height + 199) \div 200 ELSE (page.height + 99) \div 100

\* C21: in one invocation on a page of height H > 0 with S steps the k-th scroll
\* request, k = 1..S+1, goes to (k-1)*H/S, so the first goes to 0, the last to
\* H, they do not decrease and none leaves [0, H]; each is followed by a wait of
\* the step delay; request S+2 goes to 0 and is followed by a wait of 1000 ms;
\* there is no further request, and the result is recorded after all S+2
\* requests and waits, at least (S+1)*delay + 1000 ms after the start.
C21_ScrollSweep ==
    [][LET H == page.height
           S == SweepSteps
           k == Len(scroll')
           d == TierDelay(300, 150)
       IN  /\ scroll' # scroll =>
                 /\ scroll' = Append(scroll, scroll'[k])
                 /\ k <= S + 2
                 /\ k <= S + 1 =>
                       /\ scroll'[k] = [num |-> (k - 1) * H, den |-> S]
                       /\ 0 <= scroll'[k].num /\ scroll'[k].num <= H * S
                       /\ k > 1 => scroll[k - 1].num <= scroll'[k].num
                       /\ k = 1 => scroll'[k].num = 0
                       /\ k = S + 1 => scroll'[k].num = H * scroll'[k].den
                       /\ \E tm \in timers' \ timers :
                             tm.cb.fn = "wait" /\ tm.cb.run = 1 /\ tm.due = now' + d
                 /\ k = S + 2 =>
                       /\ scroll'[k] = [num |-> 0, den |-> 1]
                       /\ \E tm \in timers' \ timers :
                             tm.cb.fn = "wait" /\ tm.cb.run = 1 /\ tm.due = now' + 1000
           /\ (~Recorded("Scroll Animations") /\ Recorded("Scroll Animations")') =>
                 /\ Len(scroll) = S + 2
                 /\ scroll' = scroll
                 /\ \E tm \in timers \ timers' :
                       tm.cb.fn = "wait" /\ tm.cb.run = 1 /\ tm.due <= now'
                 /\ testResults'[1].duration >= (S + 1) * d + 1000
                 /\ testResults'[1].details.scrollSteps = S]_vars

\* The sweep of a light page of height 250 is over: requests at 0, 250/3, 500/3
\* and 250, then at 0, and the result is recorded.
C21_Witness ==
    /\ page.height = 250
    /\ ~HeavyTier
    /\ scroll = <<[num |-> 0, den |-> 3], [num |-> 250, den |-> 3], [num |-> 500, den |-> 3],
                  [num |-> 750, den |-> 3], [num |-> 0, den |-> 1]>>
    /\ Recorded("Scroll Animations")

\* C22 (as claimed): at most one frame-timing probe callback is armed at any
\* time, over every interleaving of startMonitoring, stopMonitoring and frame
\* callbacks, so that a rendered frame adds one frame-time sample and
\* increments the frame counter by one.
C22_AtMostOneProbeArmed == Len(rafQueue) <= 1

\* C23 (as claimed): from the startMonitoring of a runAllTests invocation
\* until the stopMonitoring of the same invocation the sampler is running,
\* also when an overlapping invocation finishes in between.
C23_SamplerRunsDuringRun ==
    \A r \in 1..MaxRuns : InFlight(r) => isMonitoring

\* C24 (as claimed): whenever a runAllTests invocation ends, by returning its
\* report or by the failure of a scenario, the sampler is stopped: the running
\* flag is false and both sampling intervals are cancelled.
C24_SamplerStoppedWhenRunEnds ==
    [][\A r \in 1..MaxRuns :
          (InFlight(r) /\ ~InFlight(r)') =>
              /\ ~isMonitoring'
              /\ fpsInterval' = Null
              /\ memoryInterval' = Null
              /\ \A tm \in timers' : tm.cb.fn \notin {"updateFPS", "updateMemory"}]_vars

\* C25 (as claimed): a scenario removes only elements it synthesized: every
\* element of the page that is in the document when a scenario is called is
\* in the document when it returns, also when targets were found and nothing
\* was synthesized and when the page has an off-screen div or svg of its own.
C25_OnlySynthesizedNodesRemoved ==
    Document(page.nodes) \subseteq Document(nodes)

\* C26 (as claimed): on a demo page the Start button is disabled exactly when
\* the sampler is running and the Stop button is disabled exactly when it is
\* stopped, in every state once the panel is shown.
C26_ButtonsReflectSampler ==
    ui.shown =>
        /\ ui.startDisabled <=> isMonitoring
        /\ ui.stopDisabled <=> ~isMonitoring

\* C27 (as claimed): a click on the Reset button raises no error, empties the
\* three windows and sets the animation counter to 0, and the panel then
\* shows '--' for FPS, memory and frame time and 0 for the animation count.
C27_ResetClickResets ==
    [][last'.op = "resetClick" =>
          /\ ui'.uncaught = ui.uncaught
          /\ metrics'.fps = <<>>
          /\ metrics'.memory = <<>>
          /\ metrics'.frameTime = <<>>
          /\ metrics'.animationCount = 0
          /\ dom'.fps.text = Dash
          /\ dom'.memory.text = Dash
          /\ ui'.frameTime = Dash
          /\ ui'.animationCount = 0]_vars

\* C28: through the panel at most one runAllTests invocation is in flight at a
\* time: the Run Tests button is disabled, with the label 'Testing...', from
\* the click that starts a run until the run settles, and the step in which the
\* run settles, by returning a report or by failing, enables it again with the
\* label 'Run Tests'.
C28_OneRunThroughPanel ==
    /\ [](/\ Cardinality({ r \in 1..MaxRuns : InFlight(r) }) <= 1
          /\ \A r \in 1..MaxRuns :
                InFlight(r) => ui.runDisabled /\ ui.runText = "Testing..."
          /\ Quiescent => ~ui.runDisabled /\ ui.runText = "Run Tests")
    /\ [][\A r \in 1..MaxRuns :
             /\ (~InFlight(r) /\ InFlight(r)') =>
                   ~ui.runDisabled /\ ui'.runDisabled /\ ui'.runText = "Testing..."
             /\ (InFlight(r) /\ runs'[r].pc \in {"done", "failed"}) =>
                   ~ui'.runDisabled /\ ui'.runText = "Run Tests"]_vars

\* A run started from the panel has failed, the button was enabled again, and a
\* second click has started the next run.
C28_Witness ==
    /\ runs[1].pc = "failed"
    /\ InFlight(2)
    /\ ui.runDisabled
    /\ ui.runText = "Testing..."

\* C29: reset() changes only the metrics: the three windows are emptied, the
\* animation counter and the frame counter are zeroed, the start timestamp and
\* the last-tick time are set to now; the running flag, both interval handles,
\* the armed intervals and the armed frame probe are left as they were. The
\* frame callback and the FPS tick that follow a reset put their sample into
\* the emptied window.
C29_ResetLeavesSamplingAlone ==
    [][/\ last'.op = "reset" =>
             /\ isMonitoring' = isMonitoring
             /\ fpsInterval' = fpsInterval
             /\ memoryInterval' = memoryInterval
             /\ timers' = timers
             /\ rafQueue' = rafQueue
             /\ metrics' = [fps |-> <<>>, memory |-> <<>>, loadTime |-> 0,
                            animationCount |-> 0, frameTime |-> <<>>, cpuUsage |-> 0,
                            startTime |-> now]
             /\ frameCount' = 0
             /\ lastTime' = now
       /\ (last.op = "reset" /\ last'.op = "frame") => Len(metrics'.frameTime) = 1
       /\ (last.op = "reset" /\ last'.op = "updateFPS") =>
             Len(metrics'.fps) = 1 /\ isMonitoring']_vars

\* A frame callback has put the first sample into the windows that a reset of
\* the running sampler had emptied: the FPS interval armed before the reset is
\* still armed.
C29_Witness ==
    /\ isMonitoring
    /\ last.op = "frame"
    /\ lastTime > 0
    /\ lastTime = metrics.startTime
    /\ metrics.fps = <<>>
    /\ Len(metrics.frameTime) = 1
    /\ frameCount = 1
    /\ \E t \in timers : t.cb.fn = "updateFPS" /\ t.due < lastTime + FpsPeriod

\* C30 (as claimed): in the path controller of the vanilla demo the classes of
\* the drawn path agree with pathAnimationState in every state: 'forward' means
\* 'animate' and not 'animate-reverse', 'reverse' means 'animate-reverse' and
\* not 'animate', 'stopped' means neither; the path never carries both.
C30_PathClassesMatchState ==
    DrawPath(nodes) # <<>> =>
        /\ PathClasses(nodes) # {"animate", "animate-reverse"}
        /\ pathCtl.state = "forward" => PathClasses(nodes) = {"animate"}
        /\ pathCtl.state = "reverse" => PathClasses(nodes) = {"animate-reverse"}
        /\ pathCtl.state = "stopped" => PathClasses(nodes) = {}

\* The invocation has returned a report of three durations and a summary.
Returned(r) ==
    /\ runs[r].pc = "done"
    /\ DOMAIN runs[r].report =
          {"scrollAnimations", "staggerAnimations", "svgAnimations", "summary"}
    /\ runs[r].report["scrollAnimations"] >= 0
    /\ runs[r].report["staggerAnimations"] >= 0
    /\ runs[r].report["svgAnimations"] >= 0

\* C11 (as claimed): when timer callbacks are delivered fairly, every invocation
\* of runAllTests that was made eventually returns a report with three
\* non-negative durations and a summary.
C11_EveryRunReturns ==
    \A r \in 1..MaxRuns : (runs[r].pc # "idle") ~> Returned(r)

====
